---- MODULE Spec2Model ----
(***************************************************************************)
(* Model of the speech bridge of src/app.py: the token normalizer, the     *)
(* per-code token queues (QUEUES, QLEN, q_for, push_token, drain_tokens)   *)
(* and the two request handlers that use them (recognize, pull).           *)
(*                                                                         *)
(* Strings are sequences of one-character strings, so that strip, lower,   *)
(* split and len are computed the way Python computes them.  An            *)
(* Optional[str] is a sequence of zero or one strings: None is << >> and   *)
(* the token w is << w >>.                                                 *)
(***************************************************************************)
EXTENDS Integers, Sequences, FiniteSets, TLC

(***************************************************************************)
(* Configuration, src/app.py lines 30-45.                                  *)
(***************************************************************************)
MAX_QUEUE_LEN_PER_CODE == 64

\* recognize and pull reject a code longer than this (lines 180 and 214).
MAX_CODE_LEN == 64

\* recognize treats an upload shorter than this as silence (line 184).
MIN_AUDIO_BYTES == 512

DEFAULT_VOCAB ==
    { <<"b", "e", "i", "g", "e">>,
      <<"b", "l", "a", "u">>,
      <<"b", "r", "a", "u", "n">>,
      <<"c", "y", "a", "n">>,
      <<"d", "u", "n", "k", "e", "l", "b", "l", "a", "u">>,
      <<"d", "u", "n", "k", "e", "l", "g", "r", "u", "e", "n">>,
      <<"d", "u", "n", "k", "e", "l", "r", "o", "t">>,
      <<"g", "e", "l", "b">>,
      <<"g", "o", "l", "d">>,
      <<"g", "r", "a", "u">>,
      <<"g", "r", "u", "e", "n">>,
      <<"h", "e", "l", "l", "b", "l", "a", "u">>,
      <<"h", "e", "l", "l", "g", "r", "u", "e", "n">>,
      <<"l", "i", "l", "a">>,
      <<"m", "a", "g", "e", "n", "t", "a">>,
      <<"m", "i", "n", "t">>,
      <<"o", "l", "i", "v">>,
      <<"o", "r", "a", "n", "g", "e">>,
      <<"p", "i", "n", "k">>,
      <<"r", "o", "s", "a">>,
      <<"r", "o", "t">>,
      <<"s", "c", "h", "w", "a", "r", "z">>,
      <<"s", "i", "l", "b", "e", "r">>,
      <<"t", "u", "e", "r", "k", "i", "s">>,
      <<"v", "i", "o", "l", "e", "t", "t">>,
      <<"w", "e", "i", "s", "s">> }

ALIASES ==
    { <<<<"w", "e", "i", "ß">>, <<"w", "e", "i", "s", "s">>>>,
      <<<<"w", "e", "i", "s", "s">>, <<"w", "e", "i", "s", "s">>>>,
      <<<<"g", "r", "ü", "n">>, <<"g", "r", "u", "e", "n">>>>,
      <<<<"g", "r", "u", "e", "n">>, <<"g", "r", "u", "e", "n">>>>,
      <<<<"t", "ü", "r", "k", "i", "s">>, <<"t", "u", "e", "r", "k", "i", "s">>>>,
      <<<<"t", "u", "r", "k", "i", "s">>, <<"t", "u", "e", "r", "k", "i", "s">>>>,
      <<<<"h", "e", "l", "l", "-", "b", "l", "a", "u">>, <<"h", "e", "l", "l", "b", "l", "a", "u">>>>,
      <<<<"d", "u", "n", "k", "e", "l", "-", "b", "l", "a", "u">>, <<"d", "u", "n", "k", "e", "l", "b", "l", "a", "u">>>>,
      <<<<"h", "e", "l", "l", "-", "g", "r", "ü", "n">>, <<"h", "e", "l", "l", "g", "r", "u", "e", "n">>>>,
      <<<<"d", "u", "n", "k", "e", "l", "-", "g", "r", "ü", "n">>, <<"d", "u", "n", "k", "e", "l", "g", "r", "u", "e", "n">>>>,
      <<<<"v", "i", "o", "l", "e", "t">>, <<"v", "i", "o", "l", "e", "t", "t">>>>,
      <<<<"p", "u", "r", "p", "l", "e">>, <<"v", "i", "o", "l", "e", "t", "t">>>> }

(***************************************************************************)
(* Python string primitives.                                               *)
(***************************************************************************)
\* The characters str.strip() and str.split() treat as whitespace
\* (str.isspace): space, \t, \n, \r, \f, then U+000B, U+001C to U+001F,
\* U+0085, U+00A0 and U+1680.  Python has 16 more (U+2000 to U+200A,
\* U+2028, U+2029, U+202F, U+205F, U+3000), which no string of a module
\* can hold: they are outside the alphabet of the model.
Whitespace ==
    {" ", "\t", "\n", "\r", "\f", "", "", "", "", "", "", " ", " "}

AsciiLower ==
    {"a", "b", "c", "d", "e", "f", "g", "h", "i", "j", "k", "l", "m",
     "n", "o", "p", "q", "r", "s", "t", "u", "v", "w", "x", "y", "z"}

\* str.lower() on one character, for every character a string of a module
\* can hold that it changes: <<character, its lower case>>.  A lower-case
\* character that no string of a module can hold is named by its code
\* point, "U+0253".  (U+0130, the one character whose lower case has two
\* characters, is outside the alphabet.)
LowerPairs ==
    {<<"A", "a">>, <<"B", "b">>, <<"C", "c">>, <<"D", "d">>, <<"E", "e">>,
     <<"F", "f">>, <<"G", "g">>, <<"H", "h">>, <<"I", "i">>, <<"J", "j">>,
     <<"K", "k">>, <<"L", "l">>, <<"M", "m">>, <<"N", "n">>, <<"O", "o">>,
     <<"P", "p">>, <<"Q", "q">>, <<"R", "r">>, <<"S", "s">>, <<"T", "t">>,
     <<"U", "u">>, <<"V", "v">>, <<"W", "w">>, <<"X", "x">>, <<"Y", "y">>,
     <<"Z", "z">>, <<"À", "à">>, <<"Á", "á">>, <<"Â", "â">>, <<"Ã", "ã">>,
     <<"Ä", "ä">>, <<"Å", "å">>, <<"Æ", "æ">>, <<"Ç", "ç">>, <<"È", "è">>,
     <<"É", "é">>, <<"Ê", "ê">>, <<"Ë", "ë">>, <<"Ì", "ì">>, <<"Í", "í">>,
     <<"Î", "î">>, <<"Ï", "ï">>, <<"Ð", "ð">>, <<"Ñ", "ñ">>, <<"Ò", "ò">>,
     <<"Ó", "ó">>, <<"Ô", "ô">>, <<"Õ", "õ">>, <<"Ö", "ö">>, <<"Ø", "ø">>,
     <<"Ù", "ù">>, <<"Ú", "ú">>, <<"Û", "û">>, <<"Ü", "ü">>, <<"Ý", "ý">>,
     <<"Þ", "þ">>, <<"Ɓ", "U+0253">>, <<"Ƃ", "ƃ">>, <<"Ƅ", "ƅ">>,
     <<"Ɔ", "U+0254">>, <<"Ƈ", "ƈ">>, <<"Ɖ", "U+0256">>, <<"Ɗ", "U+0257">>,
     <<"Ƌ", "ƌ">>, <<"Ǝ", "ǝ">>, <<"Ə", "U+0259">>, <<"Ɛ", "U+025B">>,
     <<"Ƒ", "ƒ">>, <<"Ɠ", "U+0260">>, <<"Ɣ", "U+0263">>, <<"Ɩ", "U+0269">>,
     <<"Ɨ", "U+0268">>, <<"Ƙ", "ƙ">>, <<"Ɯ", "U+026F">>, <<"Ɲ", "U+0272">>,
     <<"Ɵ", "U+0275">>, <<"Ơ", "ơ">>, <<"Ƣ", "ƣ">>, <<"Ƥ", "ƥ">>,
     <<"Ʀ", "ʀ">>, <<"Ƨ", "ƨ">>, <<"Ʃ", "ʃ">>, <<"Ƭ", "ƭ">>, <<"Ʈ", "ʈ">>,
     <<"Ư", "ư">>, <<"Ʊ", "ʊ">>, <<"Ʋ", "ʋ">>, <<"Ƴ", "ƴ">>, <<"Ƶ", "ƶ">>,
     <<"Ʒ", "ʒ">>, <<"Ƹ", "ƹ">>, <<"Ƽ", "ƽ">>, <<"Ǆ", "ǆ">>, <<"ǅ", "ǆ">>,
     <<"Ǉ", "ǉ">>, <<"ǈ", "ǉ">>, <<"Ǌ", "ǌ">>, <<"ǋ", "ǌ">>, <<"Ǎ", "ǎ">>,
     <<"Ǐ", "ǐ">>, <<"Ǒ", "ǒ">>, <<"Ǔ", "ǔ">>, <<"Ǖ", "ǖ">>, <<"Ǘ", "ǘ">>,
     <<"Ǚ", "ǚ">>, <<"Ǜ", "ǜ">>, <<"Ǟ", "ǟ">>, <<"Ǡ", "ǡ">>, <<"Ǣ", "ǣ">>,
     <<"Ǥ", "ǥ">>, <<"Ǧ", "ǧ">>, <<"Ǩ", "ǩ">>, <<"Ǫ", "ǫ">>, <<"Ǭ", "ǭ">>,
     <<"Ǯ", "ǯ">>, <<"Ǳ", "ǳ">>, <<"ǲ", "ǳ">>, <<"Ǵ", "ǵ">>, <<"Ƕ", "ƕ">>,
     <<"Ƿ", "ƿ">>, <<"Ǹ", "ǹ">>, <<"Ǻ", "ǻ">>, <<"Ǽ", "ǽ">>, <<"Ǿ", "ǿ">>,
     <<"Ά", "ά">>, <<"Έ", "έ">>, <<"Ή", "ή">>, <<"Ί", "ί">>, <<"Ό", "ό">>,
     <<"Ύ", "ύ">>, <<"Ώ", "ώ">>, <<"Α", "α">>, <<"Β", "β">>, <<"Γ", "γ">>,
     <<"Δ", "δ">>, <<"Ε", "ε">>, <<"Ζ", "ζ">>, <<"Η", "η">>, <<"Θ", "θ">>,
     <<"Ι", "ι">>, <<"Κ", "κ">>, <<"Λ", "λ">>, <<"Μ", "μ">>, <<"Ν", "ν">>,
     <<"Ξ", "ξ">>, <<"Ο", "ο">>, <<"Π", "π">>, <<"Ρ", "ρ">>, <<"Σ", "σ">>,
     <<"Τ", "τ">>, <<"Υ", "υ">>, <<"Φ", "φ">>, <<"Χ", "χ">>, <<"Ψ", "ψ">>,
     <<"Ω", "ω">>, <<"Ϊ", "ϊ">>, <<"Ϋ", "ϋ">>, <<"Ϗ", "ϗ">>, <<"Ϙ", "ϙ">>,
     <<"Ϛ", "ϛ">>, <<"Ϝ", "ϝ">>, <<"Ϟ", "ϟ">>, <<"Ϡ", "ϡ">>, <<"Ϣ", "ϣ">>,
     <<"Ϥ", "ϥ">>, <<"Ϧ", "ϧ">>, <<"Ϩ", "ϩ">>, <<"Ϫ", "ϫ">>, <<"Ϭ", "ϭ">>,
     <<"Ϯ", "ϯ">>, <<"ϴ", "θ">>, <<"Ϸ", "ϸ">>, <<"Ϲ", "ϲ">>, <<"Ϻ", "ϻ">>,
     <<"Ͻ", "U+037B">>, <<"Ͼ", "U+037C">>, <<"Ͽ", "U+037D">>, <<"Ҁ", "ҁ">>,
     <<"Ҋ", "ҋ">>, <<"Ҍ", "ҍ">>, <<"Ҏ", "ҏ">>, <<"Ґ", "ґ">>, <<"Ғ", "ғ">>,
     <<"Ҕ", "ҕ">>, <<"Җ", "җ">>, <<"Ҙ", "ҙ">>, <<"Қ", "қ">>, <<"Ҝ", "ҝ">>,
     <<"Ҟ", "ҟ">>, <<"Ҡ", "ҡ">>, <<"Ң", "ң">>, <<"Ҥ", "ҥ">>, <<"Ҧ", "ҧ">>,
     <<"Ҩ", "ҩ">>, <<"Ҫ", "ҫ">>, <<"Ҭ", "ҭ">>, <<"Ү", "ү">>, <<"Ұ", "ұ">>,
     <<"Ҳ", "ҳ">>, <<"Ҵ", "ҵ">>, <<"Ҷ", "ҷ">>, <<"Ҹ", "ҹ">>, <<"Һ", "һ">>,
     <<"Ҽ", "ҽ">>, <<"Ҿ", "ҿ">>, <<"Ӏ", "ӏ">>, <<"Ӂ", "ӂ">>, <<"Ӄ", "ӄ">>,
     <<"Ӆ", "ӆ">>, <<"Ӈ", "ӈ">>, <<"Ӊ", "ӊ">>, <<"Ӌ", "ӌ">>, <<"Ӎ", "ӎ">>,
     <<"Ӑ", "ӑ">>, <<"Ӓ", "ӓ">>, <<"Ӕ", "ӕ">>, <<"Ӗ", "ӗ">>, <<"Ә", "ә">>,
     <<"Ӛ", "ӛ">>, <<"Ӝ", "ӝ">>, <<"Ӟ", "ӟ">>, <<"Ӡ", "ӡ">>, <<"Ӣ", "ӣ">>,
     <<"Ӥ", "ӥ">>, <<"Ӧ", "ӧ">>, <<"Ө", "ө">>, <<"Ӫ", "ӫ">>, <<"Ӭ", "ӭ">>,
     <<"Ӯ", "ӯ">>, <<"Ӱ", "ӱ">>, <<"Ӳ", "ӳ">>, <<"Ӵ", "ӵ">>, <<"Ӷ", "ӷ">>,
     <<"Ӹ", "ӹ">>, <<"Ӻ", "ӻ">>, <<"Ӽ", "ӽ">>, <<"Ӿ", "ӿ">>,
     <<"Ⴀ", "U+2D00">>, <<"Ⴁ", "U+2D01">>, <<"Ⴂ", "U+2D02">>,
     <<"Ⴃ", "U+2D03">>, <<"Ⴄ", "U+2D04">>, <<"Ⴅ", "U+2D05">>,
     <<"Ⴆ", "U+2D06">>, <<"Ⴇ", "U+2D07">>, <<"Ⴈ", "U+2D08">>,
     <<"Ⴉ", "U+2D09">>, <<"Ⴊ", "U+2D0A">>, <<"Ⴋ", "U+2D0B">>,
     <<"Ⴌ", "U+2D0C">>, <<"Ⴍ", "U+2D0D">>, <<"Ⴎ", "U+2D0E">>,
     <<"Ⴏ", "U+2D0F">>, <<"Ⴐ", "U+2D10">>, <<"Ⴑ", "U+2D11">>,
     <<"Ⴒ", "U+2D12">>, <<"Ⴓ", "U+2D13">>, <<"Ⴔ", "U+2D14">>,
     <<"Ⴕ", "U+2D15">>, <<"Ⴖ", "U+2D16">>, <<"Ⴗ", "U+2D17">>,
     <<"Ⴘ", "U+2D18">>, <<"Ⴙ", "U+2D19">>, <<"Ⴚ", "U+2D1A">>,
     <<"Ⴛ", "U+2D1B">>, <<"Ⴜ", "U+2D1C">>, <<"Ⴝ", "U+2D1D">>,
     <<"Ⴞ", "U+2D1E">>, <<"Ⴟ", "U+2D1F">>, <<"Ⴠ", "U+2D20">>,
     <<"Ⴡ", "U+2D21">>, <<"Ⴢ", "U+2D22">>, <<"Ⴣ", "U+2D23">>,
     <<"Ⴤ", "U+2D24">>, <<"Ⴥ", "U+2D25">>, <<"Ⴧ", "U+2D27">>,
     <<"Ⴭ", "U+2D2D">>, <<"Ꭰ", "U+AB70">>, <<"Ꭱ", "U+AB71">>,
     <<"Ꭲ", "U+AB72">>, <<"Ꭳ", "U+AB73">>, <<"Ꭴ", "U+AB74">>,
     <<"Ꭵ", "U+AB75">>, <<"Ꭶ", "U+AB76">>, <<"Ꭷ", "U+AB77">>,
     <<"Ꭸ", "U+AB78">>, <<"Ꭹ", "U+AB79">>, <<"Ꭺ", "U+AB7A">>,
     <<"Ꭻ", "U+AB7B">>, <<"Ꭼ", "U+AB7C">>, <<"Ꭽ", "U+AB7D">>,
     <<"Ꭾ", "U+AB7E">>, <<"Ꭿ", "U+AB7F">>, <<"Ꮀ", "ꮀ">>, <<"Ꮁ", "ꮁ">>,
     <<"Ꮂ", "ꮂ">>, <<"Ꮃ", "ꮃ">>, <<"Ꮄ", "ꮄ">>, <<"Ꮅ", "ꮅ">>, <<"Ꮆ", "ꮆ">>,
     <<"Ꮇ", "ꮇ">>, <<"Ꮈ", "ꮈ">>, <<"Ꮉ", "ꮉ">>, <<"Ꮊ", "ꮊ">>, <<"Ꮋ", "ꮋ">>,
     <<"Ꮌ", "ꮌ">>, <<"Ꮍ", "ꮍ">>, <<"Ꮎ", "ꮎ">>, <<"Ꮏ", "ꮏ">>, <<"Ꮐ", "ꮐ">>,
     <<"Ꮑ", "ꮑ">>, <<"Ꮒ", "ꮒ">>, <<"Ꮓ", "ꮓ">>, <<"Ꮔ", "ꮔ">>, <<"Ꮕ", "ꮕ">>,
     <<"Ꮖ", "ꮖ">>, <<"Ꮗ", "ꮗ">>, <<"Ꮘ", "ꮘ">>, <<"Ꮙ", "ꮙ">>, <<"Ꮚ", "ꮚ">>,
     <<"Ꮛ", "ꮛ">>, <<"Ꮜ", "ꮜ">>, <<"Ꮝ", "ꮝ">>, <<"Ꮞ", "ꮞ">>, <<"Ꮟ", "ꮟ">>,
     <<"Ꮠ", "ꮠ">>, <<"Ꮡ", "ꮡ">>, <<"Ꮢ", "ꮢ">>, <<"Ꮣ", "ꮣ">>, <<"Ꮤ", "ꮤ">>,
     <<"Ꮥ", "ꮥ">>, <<"Ꮦ", "ꮦ">>, <<"Ꮧ", "ꮧ">>, <<"Ꮨ", "ꮨ">>, <<"Ꮩ", "ꮩ">>,
     <<"Ꮪ", "ꮪ">>, <<"Ꮫ", "ꮫ">>, <<"Ꮬ", "ꮬ">>, <<"Ꮭ", "ꮭ">>, <<"Ꮮ", "ꮮ">>,
     <<"Ꮯ", "ꮯ">>, <<"Ꮰ", "ꮰ">>, <<"Ꮱ", "ꮱ">>, <<"Ꮲ", "ꮲ">>, <<"Ꮳ", "ꮳ">>,
     <<"Ꮴ", "ꮴ">>, <<"Ꮵ", "ꮵ">>, <<"Ꮶ", "ꮶ">>, <<"Ꮷ", "ꮷ">>, <<"Ꮸ", "ꮸ">>,
     <<"Ꮹ", "ꮹ">>, <<"Ꮺ", "ꮺ">>, <<"Ꮻ", "ꮻ">>, <<"Ꮼ", "ꮼ">>, <<"Ꮽ", "ꮽ">>,
     <<"Ꮾ", "ꮾ">>, <<"Ꮿ", "ꮿ">>, <<"Ᏸ", "ᏸ">>, <<"Ᏹ", "ᏹ">>, <<"Ᏺ", "ᏺ">>,
     <<"Ᏻ", "ᏻ">>, <<"Ᏼ", "ᏼ">>, <<"Ᏽ", "ᏽ">>, <<"Ა", "ა">>, <<"Ბ", "ბ">>,
     <<"Გ", "გ">>, <<"Დ", "დ">>, <<"Ე", "ე">>, <<"Ვ", "ვ">>, <<"Ზ", "ზ">>,
     <<"Თ", "თ">>, <<"Ი", "ი">>, <<"Კ", "კ">>, <<"Ლ", "ლ">>, <<"Მ", "მ">>,
     <<"Ნ", "ნ">>, <<"Ო", "ო">>, <<"Პ", "პ">>, <<"Ჟ", "ჟ">>, <<"Რ", "რ">>,
     <<"Ს", "ს">>, <<"Ტ", "ტ">>, <<"Უ", "უ">>, <<"Ფ", "ფ">>, <<"Ქ", "ქ">>,
     <<"Ღ", "ღ">>, <<"Ყ", "ყ">>, <<"Შ", "შ">>, <<"Ჩ", "ჩ">>, <<"Ც", "ც">>,
     <<"Ძ", "ძ">>, <<"Წ", "წ">>, <<"Ჭ", "ჭ">>, <<"Ხ", "ხ">>, <<"Ჯ", "ჯ">>,
     <<"Ჰ", "ჰ">>, <<"Ჱ", "ჱ">>, <<"Ჲ", "ჲ">>, <<"Ჳ", "ჳ">>, <<"Ჴ", "ჴ">>,
     <<"Ჵ", "ჵ">>, <<"Ჶ", "ჶ">>, <<"Ჷ", "ჷ">>, <<"Ჸ", "ჸ">>, <<"Ჹ", "ჹ">>,
     <<"Ჺ", "ჺ">>, <<"Ჽ", "ჽ">>, <<"Ჾ", "ჾ">>, <<"Ჿ", "ჿ">>, <<"Ẁ", "ẁ">>,
     <<"Ẃ", "ẃ">>, <<"Ẅ", "ẅ">>, <<"Ẇ", "ẇ">>, <<"Ẉ", "ẉ">>, <<"Ẋ", "ẋ">>,
     <<"Ẍ", "ẍ">>, <<"Ẏ", "ẏ">>, <<"Ẑ", "ẑ">>, <<"Ẓ", "ẓ">>, <<"Ẕ", "ẕ">>,
     <<"ẞ", "ß">>, <<"Ạ", "ạ">>, <<"Ả", "ả">>, <<"Ấ", "ấ">>, <<"Ầ", "ầ">>,
     <<"Ẩ", "ẩ">>, <<"Ẫ", "ẫ">>, <<"Ậ", "ậ">>, <<"Ắ", "ắ">>, <<"Ằ", "ằ">>,
     <<"Ẳ", "ẳ">>, <<"Ẵ", "ẵ">>, <<"Ặ", "ặ">>, <<"Ẹ", "ẹ">>, <<"Ẻ", "ẻ">>,
     <<"Ẽ", "ẽ">>, <<"Ế", "ế">>, <<"Ề", "ề">>, <<"Ể", "ể">>, <<"Ễ", "ễ">>,
     <<"Ệ", "ệ">>, <<"Ỉ", "ỉ">>, <<"Ị", "ị">>, <<"Ọ", "ọ">>, <<"Ỏ", "ỏ">>,
     <<"Ố", "ố">>, <<"Ồ", "ồ">>, <<"Ổ", "ổ">>, <<"Ỗ", "ỗ">>, <<"Ộ", "ộ">>,
     <<"Ớ", "ớ">>, <<"Ờ", "ờ">>, <<"Ở", "ở">>, <<"Ỡ", "ỡ">>, <<"Ợ", "ợ">>,
     <<"Ụ", "ụ">>, <<"Ủ", "ủ">>, <<"Ứ", "ứ">>, <<"Ừ", "ừ">>, <<"Ử", "ử">>,
     <<"Ữ", "ữ">>, <<"Ự", "ự">>, <<"Ỳ", "ỳ">>, <<"Ỵ", "ỵ">>, <<"Ỷ", "ỷ">>,
     <<"Ỹ", "ỹ">>, <<"Ỻ", "ỻ">>, <<"Ỽ", "ỽ">>, <<"Ỿ", "ỿ">>, <<"ᾈ", "ᾀ">>,
     <<"ᾉ", "ᾁ">>, <<"ᾊ", "ᾂ">>, <<"ᾋ", "ᾃ">>, <<"ᾌ", "ᾄ">>, <<"ᾍ", "ᾅ">>,
     <<"ᾎ", "ᾆ">>, <<"ᾏ", "ᾇ">>, <<"ᾘ", "ᾐ">>, <<"ᾙ", "ᾑ">>, <<"ᾚ", "ᾒ">>,
     <<"ᾛ", "ᾓ">>, <<"ᾜ", "ᾔ">>, <<"ᾝ", "ᾕ">>, <<"ᾞ", "ᾖ">>, <<"ᾟ", "ᾗ">>,
     <<"ᾨ", "ᾠ">>, <<"ᾩ", "ᾡ">>, <<"ᾪ", "ᾢ">>, <<"ᾫ", "ᾣ">>, <<"ᾬ", "ᾤ">>,
     <<"ᾭ", "ᾥ">>, <<"ᾮ", "ᾦ">>, <<"ᾯ", "ᾧ">>, <<"Ᾰ", "ᾰ">>, <<"Ᾱ", "ᾱ">>,
     <<"Ὰ", "U+1F70">>, <<"Ά", "U+1F71">>, <<"ᾼ", "ᾳ">>, <<"Ὲ", "U+1F72">>,
     <<"Έ", "U+1F73">>, <<"Ὴ", "U+1F74">>, <<"Ή", "U+1F75">>, <<"ῌ", "ῃ">>,
     <<"Ῐ", "ῐ">>, <<"Ῑ", "ῑ">>, <<"Ὶ", "U+1F76">>, <<"Ί", "U+1F77">>,
     <<"Ῠ", "ῠ">>, <<"Ῡ", "ῡ">>, <<"Ὺ", "U+1F7A">>, <<"Ύ", "U+1F7B">>,
     <<"Ῥ", "ῥ">>, <<"Ὸ", "U+1F78">>, <<"Ό", "U+1F79">>, <<"Ὼ", "U+1F7C">>,
     <<"Ώ", "U+1F7D">>, <<"ῼ", "ῳ">>, <<"Ↄ", "ↄ">>, <<"Ⓐ", "ⓐ">>,
     <<"Ⓑ", "ⓑ">>, <<"Ⓒ", "ⓒ">>, <<"Ⓓ", "ⓓ">>, <<"Ⓔ", "ⓔ">>, <<"Ⓕ", "ⓕ">>,
     <<"Ⓖ", "ⓖ">>, <<"Ⓗ", "ⓗ">>, <<"Ⓘ", "ⓘ">>, <<"Ⓙ", "ⓙ">>, <<"Ⓚ", "ⓚ">>,
     <<"Ⓛ", "ⓛ">>, <<"Ⓜ", "ⓜ">>, <<"Ⓝ", "ⓝ">>, <<"Ⓞ", "ⓞ">>, <<"Ⓟ", "ⓟ">>,
     <<"Ⓠ", "ⓠ">>, <<"Ⓡ", "ⓡ">>, <<"Ⓢ", "ⓢ">>, <<"Ⓣ", "ⓣ">>, <<"Ⓤ", "ⓤ">>,
     <<"Ⓥ", "ⓥ">>, <<"Ⓦ", "ⓦ">>, <<"Ⓧ", "ⓧ">>, <<"Ⓨ", "ⓨ">>, <<"Ⓩ", "ⓩ">>,
     <<"Ⲁ", "ⲁ">>, <<"Ⲃ", "ⲃ">>, <<"Ⲅ", "ⲅ">>, <<"Ⲇ", "ⲇ">>, <<"Ⲉ", "ⲉ">>,
     <<"Ⲋ", "ⲋ">>, <<"Ⲍ", "ⲍ">>, <<"Ⲏ", "ⲏ">>, <<"Ⲑ", "ⲑ">>, <<"Ⲓ", "ⲓ">>,
     <<"Ⲕ", "ⲕ">>, <<"Ⲗ", "ⲗ">>, <<"Ⲙ", "ⲙ">>, <<"Ⲛ", "ⲛ">>, <<"Ⲝ", "ⲝ">>,
     <<"Ⲟ", "ⲟ">>, <<"Ⲡ", "ⲡ">>, <<"Ⲣ", "ⲣ">>, <<"Ⲥ", "ⲥ">>, <<"Ⲧ", "ⲧ">>,
     <<"Ⲩ", "ⲩ">>, <<"Ⲫ", "ⲫ">>, <<"Ⲭ", "ⲭ">>, <<"Ⲯ", "ⲯ">>, <<"Ⲱ", "ⲱ">>,
     <<"Ⲳ", "ⲳ">>, <<"Ⲵ", "ⲵ">>, <<"Ⲷ", "ⲷ">>, <<"Ⲹ", "ⲹ">>, <<"Ⲻ", "ⲻ">>,
     <<"Ⲽ", "ⲽ">>, <<"Ⲿ", "ⲿ">>, <<"Ⳁ", "ⳁ">>, <<"Ⳃ", "ⳃ">>, <<"Ⳅ", "ⳅ">>,
     <<"Ⳇ", "ⳇ">>, <<"Ⳉ", "ⳉ">>, <<"Ⳋ", "ⳋ">>, <<"Ⳍ", "ⳍ">>, <<"Ⳏ", "ⳏ">>,
     <<"Ⳑ", "ⳑ">>, <<"Ⳓ", "ⳓ">>, <<"Ⳕ", "ⳕ">>, <<"Ⳗ", "ⳗ">>, <<"Ⳙ", "ⳙ">>,
     <<"Ⳛ", "ⳛ">>, <<"Ⳝ", "ⳝ">>, <<"Ⳟ", "ⳟ">>, <<"Ⳡ", "ⳡ">>, <<"Ⳣ", "ⳣ">>,
     <<"Ⳬ", "ⳬ">>, <<"Ⳮ", "ⳮ">>, <<"Ⳳ", "ⳳ">>, <<"Ꚁ", "ꚁ">>, <<"Ꚃ", "ꚃ">>,
     <<"Ꚅ", "ꚅ">>, <<"Ꚇ", "ꚇ">>, <<"Ꚉ", "ꚉ">>, <<"Ꚋ", "ꚋ">>, <<"Ꚍ", "ꚍ">>,
     <<"Ꚏ", "ꚏ">>, <<"Ꚑ", "ꚑ">>, <<"Ꚓ", "ꚓ">>, <<"Ꚕ", "ꚕ">>, <<"Ꚗ", "ꚗ">>,
     <<"Ꚙ", "ꚙ">>, <<"Ꚛ", "ꚛ">>, <<"Ꞁ", "ꞁ">>, <<"Ꞃ", "ꞃ">>, <<"Ꞅ", "ꞅ">>,
     <<"Ꞇ", "ꞇ">>, <<"Ꞌ", "ꞌ">>, <<"Ɥ", "U+0265">>, <<"Ꞑ", "ꞑ">>,
     <<"Ꞓ", "ꞓ">>, <<"Ꞗ", "ꞗ">>, <<"Ꞙ", "ꞙ">>, <<"Ꞛ", "ꞛ">>, <<"Ꞝ", "ꞝ">>,
     <<"Ꞟ", "ꞟ">>, <<"Ꞡ", "ꞡ">>, <<"Ꞣ", "ꞣ">>, <<"Ꞥ", "ꞥ">>, <<"Ꞧ", "ꞧ">>,
     <<"Ꞩ", "ꞩ">>, <<"Ɦ", "U+0266">>, <<"Ɜ", "U+025C">>, <<"Ɡ", "U+0261">>,
     <<"Ɬ", "U+026C">>, <<"Ɪ", "U+026A">>, <<"Ʞ", "ʞ">>, <<"Ʇ", "ʇ">>,
     <<"Ʝ", "ʝ">>, <<"Ꭓ", "U+AB53">>, <<"Ꞵ", "ꞵ">>, <<"Ꞷ", "ꞷ">>,
     <<"Ꞹ", "ꞹ">>, <<"Ꞻ", "ꞻ">>, <<"Ꞽ", "ꞽ">>, <<"Ꞿ", "ꞿ">>, <<"Ꟁ", "ꟁ">>,
     <<"Ꟃ", "ꟃ">>, <<"Ꞔ", "ꞔ">>, <<"Ʂ", "ʂ">>, <<"Ᶎ", "ᶎ">>, <<"Ꟈ", "ꟈ">>,
     <<"Ꟊ", "ꟊ">>, <<"Ꟑ", "ꟑ">>, <<"Ꟗ", "ꟗ">>, <<"Ꟙ", "ꟙ">>, <<"Ꟶ", "ꟶ">>}

UpperToLower ==
    [ch \in { p[1] : p \in LowerPairs } |->
        (CHOOSE p \in LowerPairs : p[1] = ch)[2]]

\* The characters with Unicode property Case_Ignorable (accents, modifier
\* letters, apostrophe, full stop, colon, ...), which str.lower() skips
\* when it looks for the cased letters around a capital sigma.  (The grave
\* accent U+0060 is one too, and is outside the alphabet.)
CaseIgnorable ==
    {"'", ".", ":", "^", "¨", "­", "¯", "´", "·", "¸", "ʰ", "ʱ", "ʲ",
     "ʳ", "ʴ", "ʵ", "ʶ", "ʷ", "ʸ", "ʹ", "ʺ", "ʻ", "ʼ", "ʽ", "ʾ", "ʿ", "ˀ",
     "ˁ", "˂", "˃", "˄", "˅", "ˆ", "ˇ", "ˈ", "ˉ", "ˊ", "ˋ", "ˌ", "ˍ", "ˎ",
     "ˏ", "ː", "ˑ", "˒", "˓", "˔", "˕", "˖", "˗", "˘", "˙", "˚", "˛", "˜",
     "˝", "˞", "˟", "ˠ", "ˡ", "ˢ", "ˣ", "ˤ", "˥", "˦", "˧", "˨", "˩", "˪",
     "˫", "ˬ", "˭", "ˮ", "˯", "˰", "˱", "˲", "˳", "˴", "˵", "˶", "˷", "˸",
     "˹", "˺", "˻", "˼", "˽", "˾", "˿", "΄", "΅", "·", "҃", "҄", "҅", "҆",
     "҇", "҈", "҉", "֑", "֒", "֓", "֔", "֕", "֖", "֗", "֘", "֙", "֚", "֛",
     "֜", "֝", "֞", "֟", "֠", "֡", "֢", "֣", "֤", "֥", "֦", "֧", "֨", "֩",
     "֪", "֫", "֬", "֭", "֮", "֯", "ְ", "ֱ", "ֲ", "ֳ", "ִ", "ֵ", "ֶ", "ַ",
     "ָ", "ֹ", "ֺ", "ֻ", "ּ", "ֽ", "ֿ", "ׁ", "ׂ", "ׄ", "ׅ", "ׇ", "״", "ۖ",
     "ۗ", "ۘ", "ۙ", "ۚ", "ۛ", "ۜ", "۝", "۟", "۠", "ۡ", "ۢ", "ۣ", "ۤ", "ۥ",
     "ۦ", "ۧ", "ۨ", "۪", "۫", "۬", "ۭ", "ަ", "ާ", "ި", "ީ", "ު", "ޫ", "ެ",
     "ޭ", "ޮ", "ޯ", "ް", "߫", "߬", "߭", "߮", "߯", "߰", "߱", "߲", "߳", "ߴ",
     "ߵ", "ߺ", "߽", "࢈", "࢐", "࢑", "࢘", "࢙", "࢚", "࢛", "࢜", "࢝", "࢞", "࢟",
     "ࣉ", "࣊", "࣋", "࣌", "࣍", "࣎", "࣏", "࣐", "࣑", "࣒", "࣓", "ࣔ", "ࣕ", "ࣖ",
     "ࣗ", "ࣘ", "ࣙ", "ࣚ", "ࣛ", "ࣜ", "ࣝ", "ࣞ", "ࣟ", "࣠", "࣡", "࣢", "ࣣ", "ࣤ",
     "ࣥ", "ࣦ", "ࣧ", "ࣨ", "ࣩ", "࣪", "࣫", "࣬", "࣭", "࣮", "࣯", "ࣰ", "ࣱ", "ࣲ",
     "ࣳ", "ࣴ", "ࣵ", "ࣶ", "ࣷ", "ࣸ", "ࣹ", "ࣺ", "ࣻ", "ࣼ", "ࣽ", "ࣾ", "ࣿ", "ঁ",
     "়", "ু", "ূ", "ৃ", "ৄ", "্", "ৢ", "ৣ", "৾", "ઁ", "ં", "઼", "ુ", "ૂ",
     "ૃ", "ૄ", "ૅ", "ે", "ૈ", "્", "ૢ", "ૣ", "ૺ", "ૻ", "ૼ", "૽", "૾", "૿",
     "ஂ", "ீ", "்", "ಁ", "಼", "ಿ", "ೆ", "ೌ", "್", "ೢ", "ೣ", "ඁ", "්", "ි",
     "ී", "ු", "ූ", "ັ", "ິ", "ີ", "ຶ", "ື", "ຸ", "ູ", "຺", "ົ", "ຼ", "ໆ",
     "່", "້", "໊", "໋", "໌", "ໍ", "ྀ", "ཱྀ", "ྂ", "ྃ", "྄", "྆", "྇", "ྍ",
     "ྎ", "ྏ", "ྐ", "ྑ", "ྒ", "ྒྷ", "ྔ", "ྕ", "ྖ", "ྗ", "ྙ", "ྚ", "ྛ", "ྜ",
     "ྜྷ", "ྞ", "ྟ", "ྠ", "ྡ", "ྡྷ", "ྣ", "ྤ", "ྥ", "ྦ", "ྦྷ", "ྨ", "ྩ", "ྪ",
     "ྫ", "ྫྷ", "ྭ", "ྮ", "ྯ", "ྰ", "ྱ", "ྲ", "ླ", "ྴ", "ྵ", "ྶ", "ྷ", "ྸ",
     "ྐྵ", "ྺ", "ྻ", "ྼ", "࿆", "ႂ", "ႅ", "ႆ", "ႍ", "ႝ", "ჼ", "឴", "឵", "ិ",
     "ី", "ឹ", "ឺ", "ុ", "ូ", "ួ", "ំ", "៉", "៊", "់", "៌", "៍", "៎", "៏",
     "័", "៑", "្", "៓", "ៗ", "៝", "ᢅ", "ᢆ", "ᢩ", "ᪧ", "᪰", "᪱", "᪲", "᪳",
     "᪴", "᪵", "᪶", "᪷", "᪸", "᪹", "᪺", "᪻", "᪼", "᪽", "᪾", "ᪿ", "ᫀ", "᫁",
     "᫂", "᫃", "᫄", "᫅", "᫆", "᫇", "᫈", "᫉", "᫊", "᫋", "ᫌ", "ᫍ", "ᫎ", "ᮀ",
     "ᮁ", "ᮢ", "ᮣ", "ᮤ", "ᮥ", "ᮨ", "ᮩ", "᮫", "ᮬ", "ᮭ", "᯦", "ᯨ", "ᯩ", "ᯭ",
     "ᯯ", "ᯰ", "ᯱ", "᳐", "᳑", "᳒", "᳔", "᳕", "᳖", "᳗", "᳘", "᳙", "᳚", "᳛",
     "᳜", "᳝", "᳞", "᳟", "᳠", "᳢", "᳣", "᳤", "᳥", "᳦", "᳧", "᳨", "᳭", "᳴",
     "᳸", "᳹", "ᶛ", "ᶜ", "ᶝ", "ᶞ", "ᶟ", "ᶠ", "ᶡ", "ᶢ", "ᶣ", "ᶤ", "ᶥ", "ᶦ",
     "ᶧ", "ᶨ", "ᶩ", "ᶪ", "ᶫ", "ᶬ", "ᶭ", "ᶮ", "ᶯ", "ᶰ", "ᶱ", "ᶲ", "ᶳ", "ᶴ",
     "ᶵ", "ᶶ", "ᶷ", "ᶸ", "ᶹ", "ᶺ", "ᶻ", "ᶼ", "ᶽ", "ᶾ", "ᶿ", "᷀", "᷁", "᷂",
     "᷃", "᷄", "᷅", "᷆", "᷇", "᷈", "᷉", "᷊", "᷋", "᷌", "᷍", "᷎", "᷏", "᷐",
     "᷑", "᷒", "ᷓ", "ᷔ", "ᷕ", "ᷖ", "ᷗ", "ᷘ", "ᷙ", "ᷚ", "ᷛ", "ᷜ", "ᷝ", "ᷞ",
     "ᷟ", "ᷠ", "ᷡ", "ᷢ", "ᷣ", "ᷤ", "ᷥ", "ᷦ", "ᷧ", "ᷨ", "ᷩ", "ᷪ", "ᷫ", "ᷬ",
     "ᷭ", "ᷮ", "ᷯ", "ᷰ", "ᷱ", "ᷲ", "ᷳ", "ᷴ", "᷵", "᷶", "᷷", "᷸", "᷹", "᷺",
     "᷻", "᷼", "᷽", "᷾", "᷿", "᾽", "᾿", "῀", "῁", "῍", "῎", "῏", "῝", "῞",
     "῟", "῭", "΅", "`", "´", "῾", "ₐ", "ₑ", "ₒ", "ₓ", "ₔ", "ₕ", "ₖ", "ₗ",
     "ₘ", "ₙ", "ₚ", "ₛ", "ₜ", "⃐", "⃑", "⃒", "⃓", "⃔", "⃕", "⃖", "⃗", "⃘",
     "⃙", "⃚", "⃛", "⃜", "⃝", "⃞", "⃟", "⃠", "⃡", "⃢", "⃣", "⃤", "⃥", "⃦",
     "⃧", "⃨", "⃩", "⃪", "⃫", "⃬", "⃭", "⃮", "⃯", "⃰", "⳯", "⳰", "⳱", "ⷠ",
     "ⷡ", "ⷢ", "ⷣ", "ⷤ", "ⷥ", "ⷦ", "ⷧ", "ⷨ", "ⷩ", "ⷪ", "ⷫ", "ⷬ", "ⷭ", "ⷮ",
     "ⷯ", "ⷰ", "ⷱ", "ⷲ", "ⷳ", "ⷴ", "ⷵ", "ⷶ", "ⷷ", "ⷸ", "ⷹ", "ⷺ", "ⷻ", "ⷼ",
     "ⷽ", "ⷾ", "ⷿ", "゙", "゚", "゛", "゜", "ゝ", "ゞ", "ー", "ヽ", "ヾ", "ꓸ", "ꓹ",
     "ꓺ", "ꓻ", "ꓼ", "ꓽ", "ꚜ", "ꚝ", "ꚞ", "ꚟ", "꛰", "꛱", "ꞈ", "꞉", "꞊", "ꟲ",
     "ꟳ", "ꟴ", "ꟸ", "ꟹ", "꣄", "ꣅ", "꣠", "꣡", "꣢", "꣣", "꣤", "꣥", "꣦", "꣧",
     "꣨", "꣩", "꣪", "꣫", "꣬", "꣭", "꣮", "꣯", "꣰", "꣱", "ꣿ", "ꦀ", "ꦁ", "ꦂ",
     "꦳", "ꦶ", "ꦷ", "ꦸ", "ꦹ", "ꦼ", "ꦽ", "ꧏ", "ꧥ", "ꧦ", "ꪰ", "ꪲ", "ꪳ", "ꪴ",
     "ꪷ", "ꪸ", "ꪾ", "꪿", "꫁", "ꫝ", "ꫬ", "ꫭ", "ꫳ", "ꫴ", "꫶", "ꯥ", "ꯨ", "꯭",
     "﮲", "﮳", "﮴", "﮵", "﮶", "﮷", "﮸", "﮹", "﮺", "﮻", "﮼", "﮽", "﮾", "﮿",
     "﯀", "﯁", "﯂", "﻿", "ﾞ", "ﾟ", "￣", "￹", "￺", "￻"}

\* The characters with Unicode property Cased that are not Case_Ignorable.
Cased ==
    {"A", "B", "C", "D", "E", "F", "G", "H", "I", "J", "K", "L", "M", "N",
     "O", "P", "Q", "R", "S", "T", "U", "V", "W", "X", "Y", "Z", "a", "b",
     "c", "d", "e", "f", "g", "h", "i", "j", "k", "l", "m", "n", "o", "p",
     "q", "r", "s", "t", "u", "v", "w", "x", "y", "z", "ª", "µ", "º", "À",
     "Á", "Â", "Ã", "Ä", "Å", "Æ", "Ç", "È", "É", "Ê", "Ë", "Ì", "Í", "Î",
     "Ï", "Ð", "Ñ", "Ò", "Ó", "Ô", "Õ", "Ö", "Ø", "Ù", "Ú", "Û", "Ü", "Ý",
     "Þ", "ß", "à", "á", "â", "ã", "ä", "å", "æ", "ç", "è", "é", "ê", "ë",
     "ì", "í", "î", "ï", "ð", "ñ", "ò", "ó", "ô", "õ", "ö", "ø", "ù", "ú",
     "û", "ü", "ý", "þ", "ÿ", "ƀ", "Ɓ", "Ƃ", "ƃ", "Ƅ", "ƅ", "Ɔ", "Ƈ", "ƈ",
     "Ɖ", "Ɗ", "Ƌ", "ƌ", "ƍ", "Ǝ", "Ə", "Ɛ", "Ƒ", "ƒ", "Ɠ", "Ɣ", "ƕ", "Ɩ",
     "Ɨ", "Ƙ", "ƙ", "ƚ", "ƛ", "Ɯ", "Ɲ", "ƞ", "Ɵ", "Ơ", "ơ", "Ƣ", "ƣ", "Ƥ",
     "ƥ", "Ʀ", "Ƨ", "ƨ", "Ʃ", "ƪ", "ƫ", "Ƭ", "ƭ", "Ʈ", "Ư", "ư", "Ʊ", "Ʋ",
     "Ƴ", "ƴ", "Ƶ", "ƶ", "Ʒ", "Ƹ", "ƹ", "ƺ", "Ƽ", "ƽ", "ƾ", "ƿ", "Ǆ", "ǅ",
     "ǆ", "Ǉ", "ǈ", "ǉ", "Ǌ", "ǋ", "ǌ", "Ǎ", "ǎ", "Ǐ", "ǐ", "Ǒ", "ǒ", "Ǔ",
     "ǔ", "Ǖ", "ǖ", "Ǘ", "ǘ", "Ǚ", "ǚ", "Ǜ", "ǜ", "ǝ", "Ǟ", "ǟ", "Ǡ", "ǡ",
     "Ǣ", "ǣ", "Ǥ", "ǥ", "Ǧ", "ǧ", "Ǩ", "ǩ", "Ǫ", "ǫ", "Ǭ", "ǭ", "Ǯ", "ǯ",
     "ǰ", "Ǳ", "ǲ", "ǳ", "Ǵ", "ǵ", "Ƕ", "Ƿ", "Ǹ", "ǹ", "Ǻ", "ǻ", "Ǽ", "ǽ",
     "Ǿ", "ǿ", "ʀ", "ʁ", "ʂ", "ʃ", "ʄ", "ʅ", "ʆ", "ʇ", "ʈ", "ʉ", "ʊ", "ʋ",
     "ʌ", "ʍ", "ʎ", "ʏ", "ʐ", "ʑ", "ʒ", "ʓ", "ʕ", "ʖ", "ʗ", "ʘ", "ʙ", "ʚ",
     "ʛ", "ʜ", "ʝ", "ʞ", "ʟ", "ʠ", "ʡ", "ʢ", "ʣ", "ʤ", "ʥ", "ʦ", "ʧ", "ʨ",
     "ʩ", "ʪ", "ʫ", "ʬ", "ʭ", "ʮ", "ʯ", "Ά", "Έ", "Ή", "Ί", "Ό", "Ύ", "Ώ",
     "ΐ", "Α", "Β", "Γ", "Δ", "Ε", "Ζ", "Η", "Θ", "Ι", "Κ", "Λ", "Μ", "Ν",
     "Ξ", "Ο", "Π", "Ρ", "Σ", "Τ", "Υ", "Φ", "Χ", "Ψ", "Ω", "Ϊ", "Ϋ", "ά",
     "έ", "ή", "ί", "ΰ", "α", "β", "γ", "δ", "ε", "ζ", "η", "θ", "ι", "κ",
     "λ", "μ", "ν", "ξ", "ο", "π", "ρ", "ς", "σ", "τ", "υ", "φ", "χ", "ψ",
     "ω", "ϊ", "ϋ", "ό", "ύ", "ώ", "Ϗ", "ϐ", "ϑ", "ϒ", "ϓ", "ϔ", "ϕ", "ϖ",
     "ϗ", "Ϙ", "ϙ", "Ϛ", "ϛ", "Ϝ", "ϝ", "Ϟ", "ϟ", "Ϡ", "ϡ", "Ϣ", "ϣ", "Ϥ",
     "ϥ", "Ϧ", "ϧ", "Ϩ", "ϩ", "Ϫ", "ϫ", "Ϭ", "ϭ", "Ϯ", "ϯ", "ϰ", "ϱ", "ϲ",
     "ϳ", "ϴ", "ϵ", "Ϸ", "ϸ", "Ϲ", "Ϻ", "ϻ", "ϼ", "Ͻ", "Ͼ", "Ͽ", "Ҁ", "ҁ",
     "Ҋ", "ҋ", "Ҍ", "ҍ", "Ҏ", "ҏ", "Ґ", "ґ", "Ғ", "ғ", "Ҕ", "ҕ", "Җ", "җ",
     "Ҙ", "ҙ", "Қ", "қ", "Ҝ", "ҝ", "Ҟ", "ҟ", "Ҡ", "ҡ", "Ң", "ң", "Ҥ", "ҥ",
     "Ҧ", "ҧ", "Ҩ", "ҩ", "Ҫ", "ҫ", "Ҭ", "ҭ", "Ү", "ү", "Ұ", "ұ", "Ҳ", "ҳ",
     "Ҵ", "ҵ", "Ҷ", "ҷ", "Ҹ", "ҹ", "Һ", "һ", "Ҽ", "ҽ", "Ҿ", "ҿ", "Ӏ", "Ӂ",
     "ӂ", "Ӄ", "ӄ", "Ӆ", "ӆ", "Ӈ", "ӈ", "Ӊ", "ӊ", "Ӌ", "ӌ", "Ӎ", "ӎ", "ӏ",
     "Ӑ", "ӑ", "Ӓ", "ӓ", "Ӕ", "ӕ", "Ӗ", "ӗ", "Ә", "ә", "Ӛ", "ӛ", "Ӝ", "ӝ",
     "Ӟ", "ӟ", "Ӡ", "ӡ", "Ӣ", "ӣ", "Ӥ", "ӥ", "Ӧ", "ӧ", "Ө", "ө", "Ӫ", "ӫ",
     "Ӭ", "ӭ", "Ӯ", "ӯ", "Ӱ", "ӱ", "Ӳ", "ӳ", "Ӵ", "ӵ", "Ӷ", "ӷ", "Ӹ", "ӹ",
     "Ӻ", "ӻ", "Ӽ", "ӽ", "Ӿ", "ӿ", "ր", "ց", "ւ", "փ", "ք", "օ", "ֆ", "և",
     "ֈ", "Ⴀ", "Ⴁ", "Ⴂ", "Ⴃ", "Ⴄ", "Ⴅ", "Ⴆ", "Ⴇ", "Ⴈ", "Ⴉ", "Ⴊ", "Ⴋ", "Ⴌ",
     "Ⴍ", "Ⴎ", "Ⴏ", "Ⴐ", "Ⴑ", "Ⴒ", "Ⴓ", "Ⴔ", "Ⴕ", "Ⴖ", "Ⴗ", "Ⴘ", "Ⴙ", "Ⴚ",
     "Ⴛ", "Ⴜ", "Ⴝ", "Ⴞ", "Ⴟ", "Ⴠ", "Ⴡ", "Ⴢ", "Ⴣ", "Ⴤ", "Ⴥ", "Ⴧ", "Ⴭ", "ა",
     "ბ", "გ", "დ", "ე", "ვ", "ზ", "თ", "ი", "კ", "ლ", "მ", "ნ", "ო", "პ",
     "ჟ", "რ", "ს", "ტ", "უ", "ფ", "ქ", "ღ", "ყ", "შ", "ჩ", "ც", "ძ", "წ",
     "ჭ", "ხ", "ჯ", "ჰ", "ჱ", "ჲ", "ჳ", "ჴ", "ჵ", "ჶ", "ჷ", "ჸ", "ჹ", "ჺ",
     "ჽ", "ჾ", "ჿ", "Ꭰ", "Ꭱ", "Ꭲ", "Ꭳ", "Ꭴ", "Ꭵ", "Ꭶ", "Ꭷ", "Ꭸ", "Ꭹ", "Ꭺ",
     "Ꭻ", "Ꭼ", "Ꭽ", "Ꭾ", "Ꭿ", "Ꮀ", "Ꮁ", "Ꮂ", "Ꮃ", "Ꮄ", "Ꮅ", "Ꮆ", "Ꮇ", "Ꮈ",
     "Ꮉ", "Ꮊ", "Ꮋ", "Ꮌ", "Ꮍ", "Ꮎ", "Ꮏ", "Ꮐ", "Ꮑ", "Ꮒ", "Ꮓ", "Ꮔ", "Ꮕ", "Ꮖ",
     "Ꮗ", "Ꮘ", "Ꮙ", "Ꮚ", "Ꮛ", "Ꮜ", "Ꮝ", "Ꮞ", "Ꮟ", "Ꮠ", "Ꮡ", "Ꮢ", "Ꮣ", "Ꮤ",
     "Ꮥ", "Ꮦ", "Ꮧ", "Ꮨ", "Ꮩ", "Ꮪ", "Ꮫ", "Ꮬ", "Ꮭ", "Ꮮ", "Ꮯ", "Ꮰ", "Ꮱ", "Ꮲ",
     "Ꮳ", "Ꮴ", "Ꮵ", "Ꮶ", "Ꮷ", "Ꮸ", "Ꮹ", "Ꮺ", "Ꮻ", "Ꮼ", "Ꮽ", "Ꮾ", "Ꮿ", "Ᏸ",
     "Ᏹ", "Ᏺ", "Ᏻ", "Ᏼ", "Ᏽ", "ᏸ", "ᏹ", "ᏺ", "ᏻ", "ᏼ", "ᏽ", "ᲀ", "ᲁ", "ᲂ",
     "ᲃ", "ᲄ", "ᲅ", "ᲆ", "ᲇ", "ᲈ", "Ა", "Ბ", "Გ", "Დ", "Ე", "Ვ", "Ზ", "Თ",
     "Ი", "Კ", "Ლ", "Მ", "Ნ", "Ო", "Პ", "Ჟ", "Რ", "Ს", "Ტ", "Უ", "Ფ", "Ქ",
     "Ღ", "Ყ", "Შ", "Ჩ", "Ც", "Ძ", "Წ", "Ჭ", "Ხ", "Ჯ", "Ჰ", "Ჱ", "Ჲ", "Ჳ",
     "Ჴ", "Ჵ", "Ჶ", "Ჷ", "Ჸ", "Ჹ", "Ჺ", "Ჽ", "Ჾ", "Ჿ", "ᶀ", "ᶁ", "ᶂ", "ᶃ",
     "ᶄ", "ᶅ", "ᶆ", "ᶇ", "ᶈ", "ᶉ", "ᶊ", "ᶋ", "ᶌ", "ᶍ", "ᶎ", "ᶏ", "ᶐ", "ᶑ",
     "ᶒ", "ᶓ", "ᶔ", "ᶕ", "ᶖ", "ᶗ", "ᶘ", "ᶙ", "ᶚ", "Ẁ", "ẁ", "Ẃ", "ẃ", "Ẅ",
     "ẅ", "Ẇ", "ẇ", "Ẉ", "ẉ", "Ẋ", "ẋ", "Ẍ", "ẍ", "Ẏ", "ẏ", "Ẑ", "ẑ", "Ẓ",
     "ẓ", "Ẕ", "ẕ", "ẖ", "ẗ", "ẘ", "ẙ", "ẚ", "ẛ", "ẜ", "ẝ", "ẞ", "ẟ", "Ạ",
     "ạ", "Ả", "ả", "Ấ", "ấ", "Ầ", "ầ", "Ẩ", "ẩ", "Ẫ", "ẫ", "Ậ", "ậ", "Ắ",
     "ắ", "Ằ", "ằ", "Ẳ", "ẳ", "Ẵ", "ẵ", "Ặ", "ặ", "Ẹ", "ẹ", "Ẻ", "ẻ", "Ẽ",
     "ẽ", "Ế", "ế", "Ề", "ề", "Ể", "ể", "Ễ", "ễ", "Ệ", "ệ", "Ỉ", "ỉ", "Ị",
     "ị", "Ọ", "ọ", "Ỏ", "ỏ", "Ố", "ố", "Ồ", "ồ", "Ổ", "ổ", "Ỗ", "ỗ", "Ộ",
     "ộ", "Ớ", "ớ", "Ờ", "ờ", "Ở", "ở", "Ỡ", "ỡ", "Ợ", "ợ", "Ụ", "ụ", "Ủ",
     "ủ", "Ứ", "ứ", "Ừ", "ừ", "Ử", "ử", "Ữ", "ữ", "Ự", "ự", "Ỳ", "ỳ", "Ỵ",
     "ỵ", "Ỷ", "ỷ", "Ỹ", "ỹ", "Ỻ", "ỻ", "Ỽ", "ỽ", "Ỿ", "ỿ", "ᾀ", "ᾁ", "ᾂ",
     "ᾃ", "ᾄ", "ᾅ", "ᾆ", "ᾇ", "ᾈ", "ᾉ", "ᾊ", "ᾋ", "ᾌ", "ᾍ", "ᾎ", "ᾏ", "ᾐ",
     "ᾑ", "ᾒ", "ᾓ", "ᾔ", "ᾕ", "ᾖ", "ᾗ", "ᾘ", "ᾙ", "ᾚ", "ᾛ", "ᾜ", "ᾝ", "ᾞ",
     "ᾟ", "ᾠ", "ᾡ", "ᾢ", "ᾣ", "ᾤ", "ᾥ", "ᾦ", "ᾧ", "ᾨ", "ᾩ", "ᾪ", "ᾫ", "ᾬ",
     "ᾭ", "ᾮ", "ᾯ", "ᾰ", "ᾱ", "ᾲ", "ᾳ", "ᾴ", "ᾶ", "ᾷ", "Ᾰ", "Ᾱ", "Ὰ", "Ά",
     "ᾼ", "ι", "ῂ", "ῃ", "ῄ", "ῆ", "ῇ", "Ὲ", "Έ", "Ὴ", "Ή", "ῌ", "ῐ", "ῑ",
     "ῒ", "ΐ", "ῖ", "ῗ", "Ῐ", "Ῑ", "Ὶ", "Ί", "ῠ", "ῡ", "ῢ", "ΰ", "ῤ", "ῥ",
     "ῦ", "ῧ", "Ῠ", "Ῡ", "Ὺ", "Ύ", "Ῥ", "ῲ", "ῳ", "ῴ", "ῶ", "ῷ", "Ὸ", "Ό",
     "Ὼ", "Ώ", "ῼ", "Ↄ", "ↄ", "Ⓐ", "Ⓑ", "Ⓒ", "Ⓓ", "Ⓔ", "Ⓕ", "Ⓖ", "Ⓗ", "Ⓘ",
     "Ⓙ", "Ⓚ", "Ⓛ", "Ⓜ", "Ⓝ", "Ⓞ", "Ⓟ", "Ⓠ", "Ⓡ", "Ⓢ", "Ⓣ", "Ⓤ", "Ⓥ", "Ⓦ",
     "Ⓧ", "Ⓨ", "Ⓩ", "ⓐ", "ⓑ", "ⓒ", "ⓓ", "ⓔ", "ⓕ", "ⓖ", "ⓗ", "ⓘ", "ⓙ", "ⓚ",
     "ⓛ", "ⓜ", "ⓝ", "ⓞ", "ⓟ", "ⓠ", "ⓡ", "ⓢ", "ⓣ", "ⓤ", "ⓥ", "ⓦ", "ⓧ", "ⓨ",
     "ⓩ", "Ⲁ", "ⲁ", "Ⲃ", "ⲃ", "Ⲅ", "ⲅ", "Ⲇ", "ⲇ", "Ⲉ", "ⲉ", "Ⲋ", "ⲋ", "Ⲍ",
     "ⲍ", "Ⲏ", "ⲏ", "Ⲑ", "ⲑ", "Ⲓ", "ⲓ", "Ⲕ", "ⲕ", "Ⲗ", "ⲗ", "Ⲙ", "ⲙ", "Ⲛ",
     "ⲛ", "Ⲝ", "ⲝ", "Ⲟ", "ⲟ", "Ⲡ", "ⲡ", "Ⲣ", "ⲣ", "Ⲥ", "ⲥ", "Ⲧ", "ⲧ", "Ⲩ",
     "ⲩ", "Ⲫ", "ⲫ", "Ⲭ", "ⲭ", "Ⲯ", "ⲯ", "Ⲱ", "ⲱ", "Ⲳ", "ⲳ", "Ⲵ", "ⲵ", "Ⲷ",
     "ⲷ", "Ⲹ", "ⲹ", "Ⲻ", "ⲻ", "Ⲽ", "ⲽ", "Ⲿ", "ⲿ", "Ⳁ", "ⳁ", "Ⳃ", "ⳃ", "Ⳅ",
     "ⳅ", "Ⳇ", "ⳇ", "Ⳉ", "ⳉ", "Ⳋ", "ⳋ", "Ⳍ", "ⳍ", "Ⳏ", "ⳏ", "Ⳑ", "ⳑ", "Ⳓ",
     "ⳓ", "Ⳕ", "ⳕ", "Ⳗ", "ⳗ", "Ⳙ", "ⳙ", "Ⳛ", "ⳛ", "Ⳝ", "ⳝ", "Ⳟ", "ⳟ", "Ⳡ",
     "ⳡ", "Ⳣ", "ⳣ", "ⳤ", "Ⳬ", "ⳬ", "Ⳮ", "ⳮ", "Ⳳ", "ⳳ", "Ꚁ", "ꚁ", "Ꚃ", "ꚃ",
     "Ꚅ", "ꚅ", "Ꚇ", "ꚇ", "Ꚉ", "ꚉ", "Ꚋ", "ꚋ", "Ꚍ", "ꚍ", "Ꚏ", "ꚏ", "Ꚑ", "ꚑ",
     "Ꚓ", "ꚓ", "Ꚕ", "ꚕ", "Ꚗ", "ꚗ", "Ꚙ", "ꚙ", "Ꚛ", "ꚛ", "Ꞁ", "ꞁ", "Ꞃ", "ꞃ",
     "Ꞅ", "ꞅ", "Ꞇ", "ꞇ", "Ꞌ", "ꞌ", "Ɥ", "ꞎ", "Ꞑ", "ꞑ", "Ꞓ", "ꞓ", "ꞔ", "ꞕ",
     "Ꞗ", "ꞗ", "Ꞙ", "ꞙ", "Ꞛ", "ꞛ", "Ꞝ", "ꞝ", "Ꞟ", "ꞟ", "Ꞡ", "ꞡ", "Ꞣ", "ꞣ",
     "Ꞥ", "ꞥ", "Ꞧ", "ꞧ", "Ꞩ", "ꞩ", "Ɦ", "Ɜ", "Ɡ", "Ɬ", "Ɪ", "ꞯ", "Ʞ", "Ʇ",
     "Ʝ", "Ꭓ", "Ꞵ", "ꞵ", "Ꞷ", "ꞷ", "Ꞹ", "ꞹ", "Ꞻ", "ꞻ", "Ꞽ", "ꞽ", "Ꞿ", "ꞿ",
     "Ꟁ", "ꟁ", "Ꟃ", "ꟃ", "Ꞔ", "Ʂ", "Ᶎ", "Ꟈ", "ꟈ", "Ꟊ", "ꟊ", "Ꟑ", "ꟑ", "ꟓ",
     "ꟕ", "Ꟗ", "ꟗ", "Ꟙ", "ꟙ", "Ꟶ", "ꟶ", "ꟺ", "ꮀ", "ꮁ", "ꮂ", "ꮃ", "ꮄ", "ꮅ",
     "ꮆ", "ꮇ", "ꮈ", "ꮉ", "ꮊ", "ꮋ", "ꮌ", "ꮍ", "ꮎ", "ꮏ", "ꮐ", "ꮑ", "ꮒ", "ꮓ",
     "ꮔ", "ꮕ", "ꮖ", "ꮗ", "ꮘ", "ꮙ", "ꮚ", "ꮛ", "ꮜ", "ꮝ", "ꮞ", "ꮟ", "ꮠ", "ꮡ",
     "ꮢ", "ꮣ", "ꮤ", "ꮥ", "ꮦ", "ꮧ", "ꮨ", "ꮩ", "ꮪ", "ꮫ", "ꮬ", "ꮭ", "ꮮ", "ꮯ",
     "ꮰ", "ꮱ", "ꮲ", "ꮳ", "ꮴ", "ꮵ", "ꮶ", "ꮷ", "ꮸ", "ꮹ", "ꮺ", "ꮻ", "ꮼ", "ꮽ",
     "ꮾ", "ꮿ"}

\* str.lower() on one character other than a capital sigma.
lower_char(ch) ==
    IF ch \in DOMAIN UpperToLower THEN UpperToLower[ch] ELSE ch

\* str.lower() on the capital sigma at s[i]: a final sigma when the nearest
\* character before it that is not case-ignorable is cased, and the nearest
\* such character after it, if any, is not.
final_sigma(s, i) ==
    LET before == { j \in 1..(i - 1) : s[j] \notin CaseIgnorable }
        after  == { j \in (i + 1)..Len(s) : s[j] \notin CaseIgnorable }
    IN  /\ before # {}
        /\ s[CHOOSE j \in before : \A k \in before : k <= j] \in Cased
        /\ \/ after = {}
           \/ s[CHOOSE j \in after : \A k \in after : j <= k] \notin Cased

\* str.lower()
lower(s) ==
    [i \in 1..Len(s) |->
        IF s[i] = "Σ"
        THEN IF final_sigma(s, i) THEN "ς" ELSE "σ"
        ELSE lower_char(s[i])]

RECURSIVE lstrip(_)
lstrip(s) ==
    IF s # << >> /\ Head(s) \in Whitespace THEN lstrip(Tail(s)) ELSE s

RECURSIVE rstrip(_)
rstrip(s) ==
    IF s # << >> /\ s[Len(s)] \in Whitespace
    THEN rstrip(SubSeq(s, 1, Len(s) - 1))
    ELSE s

\* str.strip()
strip(s) == rstrip(lstrip(s))

\* str.split(): the maximal runs of non-whitespace characters, in order.
RECURSIVE split_from(_, _, _)
split_from(s, word, words) ==
    IF s = << >>
    THEN IF word = << >> THEN words ELSE Append(words, word)
    ELSE IF Head(s) \in Whitespace
         THEN split_from(Tail(s), << >>,
                         IF word = << >> THEN words ELSE Append(words, word))
         ELSE split_from(Tail(s), Append(word, Head(s)), words)

split(s) == split_from(s, << >>, << >>)

\* " ".join(words)
RECURSIVE join_space(_)
join_space(words) ==
    IF words = << >> THEN << >>
    ELSE IF Len(words) = 1 THEN words[1]
    ELSE words[1] \o <<" ">> \o join_space(Tail(words))

\* remove_hyphens with every hyphen turned into a space instead.
hyphens_to_spaces(s) == [i \in 1..Len(s) |-> IF s[i] = "-" THEN " " ELSE s[i]]

\* s.replace("-", "")
remove_hyphens(s) == SelectSeq(s, LAMBDA ch : ch # "-")

\* ALIASES.get(s, s)
alias_get(s) ==
    IF \E a \in ALIASES : a[1] = s
    THEN (CHOOSE a \in ALIASES : a[1] = s)[2]
    ELSE s

(***************************************************************************)
(* load_vocab, lines 49-55.  The vocabulary file is a record: kind is      *)
(* "missing" (open raises FileNotFoundError), "unreadable" (open or read   *)
(* raises anything else) or "ok", and lines is what                        *)
(* f.read().splitlines() yields.  The result says whether the call raised. *)
(***************************************************************************)
vocab_items(lines) ==
    { lower(strip(lines[i])) : i \in { j \in 1..Len(lines) : strip(lines[j]) # << >> } }

load_vocab(file) ==
    IF file.kind = "missing"
    THEN [raised |-> FALSE, items |-> DEFAULT_VOCAB]
    ELSE IF file.kind = "unreadable"
    THEN [raised |-> TRUE, items |-> {}]
    ELSE [raised |-> FALSE,
          items  |-> IF vocab_items(file.lines) # {}
                     THEN vocab_items(file.lines)
                     ELSE DEFAULT_VOCAB]

\* The file at VOCAB_PATH (line 28): the repository ships none, so the
\* process runs on the built-in vocabulary.
VocabFile == [kind |-> "missing", lines |-> << >>]

\* VOCAB = load_vocab(VOCAB_PATH), line 57.
VOCAB == load_vocab(VocabFile).items

(***************************************************************************)
(* normalize_token, lines 59-73.                                           *)
(***************************************************************************)
None == << >>

Some(w) == << w >>

\* Line 63: every character that is not a-z, a space, an umlaut, sharp s
\* or a hyphen becomes a space.
filter_char(ch) ==
    IF ch \in AsciiLower \/ ch \in {" ", "ä", "ö", "ü", "ß", "-"}
    THEN ch
    ELSE " "

\* first_match without the vocabulary test: the first word, after its alias.
first_match_any(parts) ==
    IF parts = << >> THEN None ELSE Some(alias_get(Head(parts)))

\* Lines 69-72: the first word, after its alias, that is in the vocabulary.
RECURSIVE first_match(_)
first_match(parts) ==
    IF parts = << >> THEN None
    ELSE IF alias_get(Head(parts)) \in VOCAB THEN Some(alias_get(Head(parts)))
    ELSE first_match(Tail(parts))

normalize_token(s) ==
    IF s = << >> THEN None
    ELSE LET s1 == lower(strip(s))
             s2 == [i \in 1..Len(s1) |-> filter_char(s1[i])]
             s3 == join_space(split(s2))
         IN  IF s3 = << >> THEN None
             ELSE first_match(split(remove_hyphens(alias_get(s3))))

(***************************************************************************)
(* The registry, lines 125-126.  QUEUES maps a key to a queue object and   *)
(* QLEN maps a string to a counter; both are dicts, modelled as functions  *)
(* whose domain is the set of keys present.  A queue.Queue object is an    *)
(* index into heap, the sequence of the contents of every queue object     *)
(* created so far (a replaced object stays, a caller may still hold it).   *)
(***************************************************************************)
EmptyDict == [k \in {} |-> 0]

\* d[k] = v
dict_set(d, k, v) == [x \in DOMAIN d \cup {k} |-> IF x = k THEN v ELSE d[x]]

\* d.get(k, default)
dict_get(d, k, default) == IF k \in DOMAIN d THEN d[k] ELSE default

EmptyRegistry == [QUEUES |-> EmptyDict, QLEN |-> EmptyDict, heap |-> << >>]

\* max(0, n)
max0(n) == IF n < 0 THEN 0 ELSE n

\* The tokens held by the queue registered under key (none when absent).
queued(R, key) ==
    IF key \in DOMAIN R.QUEUES THEN R.heap[R.QUEUES[key]] ELSE << >>

(***************************************************************************)
(* One call of push_token or drain_tokens is a frame: the position pc, the *)
(* arguments code and tok, and the locals key (q_for's stripped code), q   *)
(* (the queue object returned by q_for), out (drain's list) and tmp (the   *)
(* counter value read by a read-modify-write of QLEN).  Each operator      *)
(* below is one step of the source and maps a registry R and a frame f to  *)
(* the registry and frame after it.  A thread switch can fall between any  *)
(* two of them; queue.Queue's own methods are atomic.                      *)
(***************************************************************************)
IdleFrame ==
    [pc |-> "idle", op |-> "none", code |-> << >>, tok |-> << >>,
     key |-> << >>, q |-> 0, out |-> << >>, tmp |-> 0]

CallFrame(op, code, tok) ==
    [IdleFrame EXCEPT !.pc = "q_for_lookup", !.op = op, !.code = code, !.tok = tok]

\* q_for, lines 129-130: code = code.strip(); if code not in QUEUES
q_for_lookup(R, f) ==
    LET key == strip(f.code)
    IN  [R |-> R,
         f |-> [f EXCEPT !.key = key,
                         !.pc = IF key \notin DOMAIN R.QUEUES
                                THEN "q_for_create"
                                ELSE "q_for_return"]]

\* q_for_create with one queue object shared by every key: the first object
\* created is registered again instead of a new one.
q_for_create_shared(R, f) ==
    IF R.heap = << >>
    THEN [R |-> [R EXCEPT !.heap = Append(R.heap, << >>),
                          !.QUEUES = dict_set(R.QUEUES, f.key, 1)],
          f |-> [f EXCEPT !.pc = "q_for_init_len"]]
    ELSE [R |-> [R EXCEPT !.QUEUES = dict_set(R.QUEUES, f.key, 1)],
          f |-> [f EXCEPT !.pc = "q_for_init_len"]]

\* q_for_create with the new queue object returned without being stored in
\* QUEUES.
q_for_create_unregistered(R, f) ==
    [R |-> [R EXCEPT !.heap = Append(R.heap, << >>)],
     f |-> [f EXCEPT !.q = Len(R.heap) + 1,
                     !.pc = IF f.op = "push" THEN "push_check" ELSE "drain_get"]]

\* q_for, line 131: QUEUES[code] = queue.Queue()
q_for_create(R, f) ==
    [R |-> [R EXCEPT !.heap = Append(R.heap, << >>),
                     !.QUEUES = dict_set(R.QUEUES, f.key, Len(R.heap) + 1)],
     f |-> [f EXCEPT !.pc = "q_for_init_len"]]

\* q_for, line 132: QLEN[code] = 0
q_for_init_len(R, f) ==
    [R |-> [R EXCEPT !.QLEN = dict_set(R.QLEN, f.key, 0)],
     f |-> [f EXCEPT !.pc = "q_for_return"]]

\* q_for, line 133: return QUEUES[code]; the caller goes on at line 137
\* (push_token) or line 151 (drain_tokens).
q_for_return(R, f) ==
    [R |-> R,
     f |-> [f EXCEPT !.q = R.QUEUES[f.key],
                     !.pc = IF f.op = "push" THEN "push_check" ELSE "drain_get"]]

\* push_token, line 137: if QLEN.get(code, 0) >= MAX_QUEUE_LEN_PER_CODE
push_check(R, f) ==
    [R |-> R,
     f |-> [f EXCEPT !.pc = IF dict_get(R.QLEN, f.code, 0) >= MAX_QUEUE_LEN_PER_CODE
                            THEN "push_evict"
                            ELSE "push_put"]]

\* push_evict with a blocking q.get(): on an empty queue the caller waits.
push_evict_blocking(R, f) ==
    IF R.heap[f.q] = << >>
    THEN [R |-> R, f |-> f]
    ELSE [R |-> [R EXCEPT !.heap[f.q] = Tail(@)],
          f |-> [f EXCEPT !.pc = "push_dec_read"]]

\* push_token, line 139: q.get_nowait(); queue.Empty is swallowed by the
\* except of lines 141-142 and skips line 140.
push_evict(R, f) ==
    IF R.heap[f.q] = << >>
    THEN [R |-> R, f |-> [f EXCEPT !.pc = "push_put"]]
    ELSE [R |-> [R EXCEPT !.heap[f.q] = Tail(@)],
          f |-> [f EXCEPT !.pc = "push_dec_read"]]

\* push_token, line 140, the read of QLEN[code]; a KeyError is swallowed too.
push_dec_read(R, f) ==
    IF f.code \in DOMAIN R.QLEN
    THEN [R |-> R, f |-> [f EXCEPT !.tmp = R.QLEN[f.code], !.pc = "push_dec_write"]]
    ELSE [R |-> R, f |-> [f EXCEPT !.pc = "push_put"]]

\* push_token, line 140, the store: QLEN[code] = max(0, <read> - 1)
push_dec_write(R, f) ==
    [R |-> [R EXCEPT !.QLEN = dict_set(R.QLEN, f.code, max0(f.tmp - 1))],
     f |-> [f EXCEPT !.tmp = 0, !.pc = "push_put"]]

\* push_token, line 143: q.put(token)
push_put(R, f) ==
    [R |-> [R EXCEPT !.heap[f.q] = Append(@, f.tok)],
     f |-> [f EXCEPT !.pc = "push_inc_read"]]

\* push_token, line 144, the read: QLEN.get(code, 0)
push_inc_read(R, f) ==
    [R |-> R,
     f |-> [f EXCEPT !.tmp = dict_get(R.QLEN, f.code, 0), !.pc = "push_inc_write"]]

\* push_token, line 144, the store: QLEN[code] = <read> + 1
push_inc_write(R, f) ==
    [R |-> [R EXCEPT !.QLEN = dict_set(R.QLEN, f.code, f.tmp + 1)],
     f |-> [f EXCEPT !.tmp = 0, !.pc = "return"]]

\* drain_get that copies the queue's contents and returns, removing nothing.
drain_get_snapshot(R, f) ==
    [R |-> R, f |-> [f EXCEPT !.out = R.heap[f.q], !.pc = "return"]]

\* drain_tokens, line 151: out.append(q.get_nowait()); queue.Empty ends the
\* loop through the except of lines 153-154.
drain_get(R, f) ==
    IF R.heap[f.q] = << >>
    THEN [R |-> R, f |-> [f EXCEPT !.pc = "return"]]
    ELSE [R |-> [R EXCEPT !.heap[f.q] = Tail(@)],
          f |-> [f EXCEPT !.out = Append(@, Head(R.heap[f.q])),
                          !.pc = "drain_dec_read"]]

\* drain_tokens, line 152, the read: QLEN.get(code, 0)
drain_dec_read(R, f) ==
    [R |-> R,
     f |-> [f EXCEPT !.tmp = dict_get(R.QLEN, f.code, 0), !.pc = "drain_dec_write"]]

\* drain_tokens, line 152, the store: QLEN[code] = max(0, <read> - 1)
drain_dec_write(R, f) ==
    [R |-> [R EXCEPT !.QLEN = dict_set(R.QLEN, f.code, max0(f.tmp - 1))],
     f |-> [f EXCEPT !.tmp = 0, !.pc = "drain_get"]]

QForPcs == {"q_for_lookup", "q_for_create", "q_for_init_len", "q_for_return"}

PushPcs ==
    {"push_check", "push_evict", "push_dec_read", "push_dec_write",
     "push_put", "push_inc_read", "push_inc_write"}

DrainPcs == {"drain_get", "drain_dec_read", "drain_dec_write"}

\* The step the frame is at.
step(R, f) ==
    CASE f.pc = "q_for_lookup"    -> q_for_lookup(R, f)
      [] f.pc = "q_for_create"    -> q_for_create(R, f)
      [] f.pc = "q_for_init_len"  -> q_for_init_len(R, f)
      [] f.pc = "q_for_return"    -> q_for_return(R, f)
      [] f.pc = "push_check"      -> push_check(R, f)
      [] f.pc = "push_evict"      -> push_evict(R, f)
      [] f.pc = "push_dec_read"   -> push_dec_read(R, f)
      [] f.pc = "push_dec_write"  -> push_dec_write(R, f)
      [] f.pc = "push_put"        -> push_put(R, f)
      [] f.pc = "push_inc_read"   -> push_inc_read(R, f)
      [] f.pc = "push_inc_write"  -> push_inc_write(R, f)
      [] f.pc = "drain_get"       -> drain_get(R, f)
      [] f.pc = "drain_dec_read"  -> drain_dec_read(R, f)
      [] f.pc = "drain_dec_write" -> drain_dec_write(R, f)

\* Up to 2^k steps of the call in s.f, stopping at its return.
RECURSIVE steps(_, _)
steps(s, k) ==
    IF s.f.pc = "return" THEN s
    ELSE IF k = 0 THEN step(s.R, s.f)
    ELSE steps(steps(s, k - 1), k - 1)

\* A call run to its return with no other caller in between.
RECURSIVE run_from(_)
run_from(s) ==
    IF s.f.pc = "return" THEN s ELSE run_from(steps(s, 6))

run(R, f) == run_from([R |-> R, f |-> f])

\* push_token(code, token), lines 135-144, run alone: the registry after it.
push_token(R, code, token) == run(R, CallFrame("push", code, token)).R

\* drain_tokens(code), lines 146-155, run alone: the registry after it and
\* the list returned.
drain_tokens(R, code) ==
    LET s == run(R, CallFrame("drain", code, << >>))
    IN  [R |-> s.R, out |-> s.f.out]

(***************************************************************************)
(* The handlers, lines 178-216.                                            *)
(***************************************************************************)
\* invalid_code without the length test.
invalid_code_no_length(code) == code = << >>

\* Lines 180 and 214: if not code or len(code) > 64
invalid_code(code) == code = << >> \/ Len(code) > MAX_CODE_LEN

\* recognize_token without the byte threshold of line 184.
recognize_token_no_threshold(audio) ==
    IF ~audio.decodes THEN [token |-> None, note |-> "decode_failed"]
    ELSE IF ~audio.recognizes THEN [token |-> None, note |-> ""]
    ELSE [token |-> normalize_token(strip(audio.hyp)), note |-> ""]

\* recognize, lines 183-206, for an upload described by its size in bytes,
\* whether libsndfile decodes it, whether the recognizer runs without an
\* exception, and the text of the recognizer's result: the token of line
\* 206 and the note of the reply when the handler returns before line 206.
recognize_token(audio) ==
    IF audio.bytes < MIN_AUDIO_BYTES THEN [token |-> None, note |-> ""]
    ELSE IF ~audio.decodes THEN [token |-> None, note |-> "decode_failed"]
    ELSE IF ~audio.recognizes THEN [token |-> None, note |-> ""]
    ELSE [token |-> normalize_token(strip(audio.hyp)), note |-> ""]

NoResponse ==
    [kind |-> "none", code |-> << >>, status |-> 0, ok |-> FALSE,
     token |-> None, tokens |-> << >>, note |-> ""]

\* Lines 181, 215 and 372-374: HTTP 400, {"ok": false, "detail": "invalid code"}
Rejected(kind, code) ==
    [NoResponse EXCEPT !.kind = kind, !.code = code, !.status = 400,
                       !.note = "invalid code"]

\* Lines 185, 191, 198, 209, 210: {"ok": true, "token": ...}
RecognizeReply(code, token, note) ==
    [NoResponse EXCEPT !.kind = "recognize", !.code = code, !.status = 200,
                       !.ok = TRUE, !.token = token, !.note = note]

\* Line 216: {"tokens": [...]}
PullReply(code, tokens) ==
    [NoResponse EXCEPT !.kind = "pull", !.code = code, !.status = 200,
                       !.tokens = tokens]

(***************************************************************************)
(* Inputs.                                                                 *)
(***************************************************************************)
\* Bound: the number of requests the clients send in a behaviour, when each
\* is sent after the reply to the one before.
MaxRequests == 3

\* Bound: the number of requests the clients send in a behaviour, when they
\* are sent at any time.
MaxConcRequests == 2

rot == <<"r", "o", "t">>

weiss == <<"w", "e", "i", "s", "s">>

\* A code one character longer than the handlers accept.
LongCode == [i \in 1..(MAX_CODE_LEN + 1) |-> "a"]

\* The codes of the requests: "a", " a", " ", "" and LongCode.
Codes == { <<"a">>, <<" ", "a">>, <<" ">>, << >>, LongCode }

\* The keys q_for can derive from them.
Keys == { strip(c) : c \in Codes }

\* What the recognizer returns: "Weiß", "ich sehe rot jetzt", "xyz123".
Hyps ==
    { <<"W", "e", "i", "ß">>,
      <<"i", "c", "h", " ", "s", "e", "h", "e", " ", "r", "o", "t", " ",
        "j", "e", "t", "z", "t">>,
      <<"x", "y", "z", "1", "2", "3">> }

\* The uploads: one byte short of the threshold, undecodable, one the
\* recognizer fails on, and one recognized as each hypothesis.
Audios ==
    { [bytes |-> MIN_AUDIO_BYTES - 1, decodes |-> TRUE, recognizes |-> TRUE, hyp |-> rot],
      [bytes |-> MIN_AUDIO_BYTES, decodes |-> FALSE, recognizes |-> FALSE, hyp |-> << >>],
      [bytes |-> MIN_AUDIO_BYTES, decodes |-> TRUE, recognizes |-> FALSE, hyp |-> << >>] }
    \cup { [bytes |-> MIN_AUDIO_BYTES, decodes |-> TRUE, recognizes |-> TRUE, hyp |-> h] :
             h \in Hyps }

\* recognize is a coroutine of the event loop.  It yields once, at line 183,
\* where other coroutines and the worker threads are served while it waits
\* for its upload; from line 184 on it runs to its return without yielding,
\* so push_token calls never overlap each other.  pull is a plain function,
\* which FastAPI runs in a worker thread, so drain_tokens runs beside the
\* event loop and beside other pulls.
Coroutines == {"c1", "c2"}

Workers == {"w1", "w2"}

Procs == Coroutines \cup Workers

\* The registry a behaviour starts from: the empty one of lines 125-126, or
\* the one the process is in after n recognize requests with code "a" have
\* pushed rot, weiss, rot, ... one after the other (a short queue and a
\* full one).
PreCode == <<"a">>

PreTok(i) == IF i % 2 = 1 THEN rot ELSE weiss

PreSeq(n) == [i \in 1..n |-> PreTok(i)]

ShortFill == 2

PreFills == {0, ShortFill, MAX_QUEUE_LEN_PER_CODE}

\* R after the requests number i to n, stopping once the queue holds n tokens.
RECURSIVE PreFillFrom(_, _, _)
PreFillFrom(R, i, n) ==
    IF i > n \/ Len(queued(R, strip(PreCode))) >= n THEN R
    ELSE PreFillFrom(push_token(R, PreCode, PreTok(i)), i + 1, n)

PreFill(n) == PreFillFrom(EmptyRegistry, 1, n)

(***************************************************************************)
(* State.                                                                  *)
(***************************************************************************)
VARIABLES
    QUEUES,     \* line 125
    QLEN,       \* line 126
    heap,       \* the contents of every queue.Queue object created
    frame,      \* the push_token or drain_tokens call each caller is in
    resp,       \* the last reply sent
    todo,       \* the number of requests the clients have yet to send
    pushedVia,  \* history: code -> the tokens passed to push_token with it
    since,      \* history: key -> the tokens pushed since its last drain began
    info,       \* history: what each caller's call found when it began
    hist,       \* history: the last two calls that returned
    epoch,      \* history: the registry when the callers were last all idle,
                \* and the calls begun since
    used,       \* history: the codes passed to push_token or drain_tokens
    vocabSource,  \* the vocabulary file a load_vocab call is given
    vocabLoaded,  \* << what that call returned >>, or NotCalled
    normIn,       \* the string a normalize_token call is given
    normOut       \* << what that call returned >>, or NotCalled

\* The variables of the calls of load_vocab and normalize_token on their own.
pure == <<vocabSource, vocabLoaded, normIn, normOut>>

vars == <<QUEUES, QLEN, heap, frame, resp, todo, pushedVia, since, info, hist,
          epoch, used, vocabSource, vocabLoaded, normIn, normOut>>

NotCalled == << >>

\* No call of load_vocab or normalize_token on its own is under way: the
\* process has loaded VOCAB from VocabFile (line 57).
PureIdle ==
    /\ vocabSource = VocabFile
    /\ vocabLoaded = << load_vocab(VocabFile) >>
    /\ normIn = << >>
    /\ normOut = NotCalled

Registry == [QUEUES |-> QUEUES, QLEN |-> QLEN, heap |-> heap]

SetRegistry(R) ==
    /\ QUEUES' = R.QUEUES
    /\ QLEN' = R.QLEN
    /\ heap' = R.heap

\* Caller p is inside push_token or drain_tokens.
InCall(p) == frame[p].pc \notin {"idle", "await_read"}

\* No call of push_token or drain_tokens is under way.
Quiet == \A p \in Procs : ~InCall(p)

\* No request is being served.
AllIdle == \A p \in Procs : frame[p].pc = "idle"

NoInfo == [before |-> << >>, fresh |-> FALSE, had |-> << >>]

\* The process after the n requests of PreFill(n): its registry and the
\* history of the calls made.
PreState(n) ==
    [R     |-> PreFill(n),
     via   |-> [c \in Codes |-> IF c = PreCode THEN { PreTok(i) : i \in 1..n } ELSE {}],
     since |-> [k \in Keys |-> IF k = strip(PreCode) THEN PreSeq(n) ELSE << >>],
     used  |-> IF n > 0 THEN {PreCode} ELSE {}]

\* The process after the requests of the full registry, a pull with code
\* " a" and two recognize requests with code " a": the queue of key "a"
\* holds two tokens while QLEN["a"] is still at the capacity, so that the
\* next push_token with code "a" evicts.
StaleCode == <<" ", "a">>

Stale ==
    LET F  == PreState(MAX_QUEUE_LEN_PER_CODE)
        D  == drain_tokens(F.R, StaleCode).R
        t1 == PreTok(MAX_QUEUE_LEN_PER_CODE + 1)
        t2 == PreTok(MAX_QUEUE_LEN_PER_CODE + 2)
    IN  [R     |-> push_token(push_token(D, StaleCode, t1), StaleCode, t2),
         via   |-> [F.via EXCEPT ![StaleCode] = @ \cup {t1, t2}],
         since |-> [F.since EXCEPT ![strip(PreCode)] = <<t1, t2>>],
         used  |-> F.used \cup {StaleCode}]

\* The process is in state s and the clients will send n requests.
Start(s, n) ==
    /\ QUEUES = s.R.QUEUES
    /\ QLEN = s.R.QLEN
    /\ heap = s.R.heap
    /\ frame = [p \in Procs |-> IdleFrame]
    /\ resp = NoResponse
    /\ todo = n
    /\ pushedVia = s.via
    /\ since = s.since
    /\ info = [p \in Procs |-> NoInfo]
    /\ hist = << >>
    /\ epoch = [R0 |-> s.R, calls |-> << >>]
    /\ used = s.used
    /\ PureIdle

\* Clients that take turns start from the empty, the short or the full
\* registry.
Init == \E n \in PreFills : Start(PreState(n), MaxRequests)

\* Clients that do not wait start from the empty or the short registry, or
\* from the one whose counter is stale.
InitConc ==
    \/ \E n \in PreFills \ {MAX_QUEUE_LEN_PER_CODE} : Start(PreState(n), MaxConcRequests)
    \/ Start(Stale, MaxConcRequests)

(***************************************************************************)
(* History kept for the properties; none of it is read by the program.     *)
(***************************************************************************)
\* A call of op by caller p begins.
NoteCall(p, op, code, tok) ==
    /\ pushedVia' = IF op = "push"
                    THEN [pushedVia EXCEPT ![code] = @ \cup {tok}]
                    ELSE pushedVia
    /\ since' = [since EXCEPT ![strip(code)] =
                    IF op = "push" THEN Append(@, tok) ELSE << >>]
    /\ info' = [info EXCEPT ![p] =
                    [before |-> since[strip(code)],
                     fresh  |-> strip(code) \notin DOMAIN QUEUES,
                     had    |-> queued(Registry, strip(code))]]
    /\ used' = used \cup {code}
    /\ epoch' = LET c == [op |-> op, code |-> code, tok |-> tok]
                IN  IF Quiet
                    THEN [R0 |-> Registry, calls |-> <<c>>]
                    ELSE [epoch EXCEPT !.calls = Append(@, c)]

\* The call in frame f, begun with history i, returns leaving registry R;
\* alone says that no other call was under way between its begin and now.
Returned(f, i, R, alone) ==
    [op |-> f.op, code |-> f.code, tok |-> f.tok, out |-> f.out,
     before |-> i.before, fresh |-> i.fresh, had |-> i.had, alone |-> alone,
     present |-> strip(f.code) \in DOMAIN R.QUEUES,
     left |-> queued(R, strip(f.code))]

NoteReturn(f, i, R, alone) ==
    hist' = IF hist = << >>
            THEN << Returned(f, i, R, alone) >>
            ELSE << hist[Len(hist)], Returned(f, i, R, alone) >>

\* The reply of the handler whose call in frame f has returned.
ReplyOf(f) ==
    IF f.op = "push"
    THEN RecognizeReply(f.code, Some(f.tok), "")
    ELSE PullReply(f.code, f.out)

(***************************************************************************)
(* The handlers, one action per stretch of code that runs without a        *)
(* thread switch or a yield being able to fall inside it.                  *)
(***************************************************************************)
\* Caller p's handler replies r without having touched the registry.
ReplyOnly(p, r) ==
    /\ resp' = r
    /\ frame' = [frame EXCEPT ![p] = IdleFrame]
    /\ UNCHANGED <<QUEUES, QLEN, heap, pushedVia, since, info, hist, epoch, used>>
    /\ UNCHANGED pure

\* Caller p's handler enters push_token or drain_tokens.
BeginCall(p, op, code, tok) ==
    /\ frame' = [frame EXCEPT ![p] = CallFrame(op, code, tok)]
    /\ NoteCall(p, op, code, tok)
    /\ UNCHANGED <<QUEUES, QLEN, heap, resp, hist>>
    /\ UNCHANGED pure

\* Caller p may take up a request now: turns says that the clients take
\* turns, each sending its request after the reply to the one before.
MayBegin(p, turns) ==
    /\ frame[p].pc = "idle"
    /\ todo > 0
    /\ turns => AllIdle

\* The event loop can run coroutine c: no other coroutine is between its
\* resumption and its return.
LoopFree(c) == \A o \in Coroutines \ {c} : ~InCall(o)

\* The frame of a recognize request waiting at line 183 for its upload.
AwaitFrame(code) == [IdleFrame EXCEPT !.pc = "await_read", !.code = code]

\* recognize up to its await (lines 178-183).
RecognizeBegin(c, code, turns) ==
    /\ MayBegin(c, turns)
    /\ LoopFree(c)
    /\ todo' = todo - 1
    /\ IF invalid_code(code)
       THEN ReplyOnly(c, Rejected("recognize", code))
       ELSE /\ frame' = [frame EXCEPT ![c] = AwaitFrame(code)]
            /\ UNCHANGED <<QUEUES, QLEN, heap, resp, pushedVia, since, info, hist,
                           epoch, used>>
            /\ UNCHANGED pure

\* recognize from the upload read at line 183 up to its call of push_token
\* (lines 183-208).
RecognizeResume(c, audio) ==
    /\ frame[c].pc = "await_read"
    /\ LoopFree(c)
    /\ UNCHANGED todo
    /\ IF recognize_token(audio).token = None
       THEN ReplyOnly(c, RecognizeReply(frame[c].code, None, recognize_token(audio).note))
       ELSE BeginCall(c, "push", frame[c].code, recognize_token(audio).token[1])

\* pull up to its call of drain_tokens (lines 212-216).
PullBegin(w, code, turns) ==
    /\ MayBegin(w, turns)
    /\ todo' = todo - 1
    /\ IF invalid_code(code)
       THEN ReplyOnly(w, Rejected("pull", code))
       ELSE BeginCall(w, "drain", code, << >>)

\* One step of caller p, whose frame is at one of pcs.
StepAt(p, pcs) ==
    /\ frame[p].pc \in pcs
    /\ LET s == step(Registry, frame[p])
       IN  /\ SetRegistry(s.R)
           /\ frame' = [frame EXCEPT ![p] = s.f]
    /\ UNCHANGED <<resp, todo, pushedVia, since, info, hist, epoch, used>>
    /\ UNCHANGED pure

QForStep(p) == StepAt(p, QForPcs)

PushStep(p) == StepAt(p, PushPcs)

DrainStep(p) == StepAt(p, DrainPcs)

\* push_token or drain_tokens has returned: the handler replies (lines 209, 216).
Reply(p) ==
    /\ frame[p].pc = "return"
    /\ resp' = ReplyOf(frame[p])
    /\ frame' = [frame EXCEPT ![p] = IdleFrame]
    /\ info' = [info EXCEPT ![p] = NoInfo]
    /\ NoteReturn(frame[p], info[p], Registry,
                  /\ Len(epoch.calls) = 1
                  /\ \A o \in Procs \ {p} : ~InCall(o))
    /\ UNCHANGED <<QUEUES, QLEN, heap, todo, pushedVia, since, epoch, used>>
    /\ UNCHANGED pure

\* The steps the callers take once their requests are taken up.
Serve ==
    \/ \E c \in Coroutines, audio \in Audios : RecognizeResume(c, audio)
    \/ \E p \in Procs : QForStep(p)
    \/ \E p \in Procs : PushStep(p)
    \/ \E p \in Procs : DrainStep(p)
    \/ \E p \in Procs : Reply(p)

(***************************************************************************)
(* Clients that take turns: up to MaxRequests requests, each sent after    *)
(* the reply to the one before.                                            *)
(***************************************************************************)
Next ==
    \/ \E c \in Coroutines, code \in Codes : RecognizeBegin(c, code, TRUE)
    \/ \E w \in Workers, code \in Codes : PullBegin(w, code, TRUE)
    \/ Serve

Spec == Init /\ [][Next]_vars

(***************************************************************************)
(* Clients that do not wait: up to MaxConcRequests requests, sent at any   *)
(* time.  The event loop runs the coroutines, the worker threads run pull, *)
(* and a thread switch can fall between any two steps.                     *)
(***************************************************************************)
NextConc ==
    \/ \E c \in Coroutines, code \in Codes : RecognizeBegin(c, code, FALSE)
    \/ \E w \in Workers, code \in Codes : PullBegin(w, code, FALSE)
    \/ Serve

SpecConc == InitConc /\ [][NextConc]_vars

\* A caller inside q_for, push_token or drain_tokens takes its next step:
\* the event loop keeps running the coroutine it resumed and the operating
\* system keeps scheduling every runnable thread.
Fairness ==
    \A p \in Procs : WF_vars(StepAt(p, QForPcs \cup PushPcs \cup DrainPcs))

SpecConcFair == SpecConc /\ Fairness


(***************************************************************************)
(* load_vocab on its own: the call of line 57, for each state the file at  *)
(* VOCAB_PATH can be in.                                                   *)
(***************************************************************************)
\* Bound: the number of lines of a vocabulary file.
MaxVocabLines == 3

\* The lines of a vocabulary file: "rot", " Rot ", "blau", "" and "  ".
VocabLines ==
    { rot, <<" ", "R", "o", "t", " ">>, <<"b", "l", "a", "u">>, << >>, <<" ", " ">> }

RECURSIVE SeqsUpTo(_, _)
SeqsUpTo(S, n) ==
    IF n = 0 THEN { << >> }
    ELSE SeqsUpTo(S, n - 1)
            \cup { Append(q, x) : q \in { r \in SeqsUpTo(S, n - 1) : Len(r) = n - 1 }, x \in S }

\* The file is absent, cannot be opened or read for another reason
\* (a directory, no permission, bytes that are not UTF-8), or has lines.
VocabFiles ==
    { [kind |-> "missing", lines |-> << >>], [kind |-> "unreadable", lines |-> << >>] }
        \cup { [kind |-> "ok", lines |-> l] : l \in SeqsUpTo(VocabLines, MaxVocabLines) }

\* The relay before any request: the registry of lines 125-126.
RelayIdle ==
    /\ QUEUES = EmptyDict
    /\ QLEN = EmptyDict
    /\ heap = << >>
    /\ frame = [p \in Procs |-> IdleFrame]
    /\ resp = NoResponse
    /\ todo = 0
    /\ pushedVia = [c \in Codes |-> {}]
    /\ since = [k \in Keys |-> << >>]
    /\ info = [p \in Procs |-> NoInfo]
    /\ hist = << >>
    /\ epoch = [R0 |-> EmptyRegistry, calls |-> << >>]
    /\ used = {}

relay == <<QUEUES, QLEN, heap, frame, resp, todo, pushedVia, since, info, hist,
           epoch, used>>

InitVocab ==
    /\ RelayIdle
    /\ vocabSource \in VocabFiles
    /\ vocabLoaded = NotCalled
    /\ normIn = << >>
    /\ normOut = NotCalled

\* VOCAB = load_vocab(VOCAB_PATH), line 57.
LoadVocab ==
    /\ vocabLoaded = NotCalled
    /\ vocabLoaded' = << load_vocab(vocabSource) >>
    /\ UNCHANGED <<vocabSource, normIn, normOut>>
    /\ UNCHANGED relay

NextVocab == LoadVocab

SpecVocab == InitVocab /\ [][NextVocab]_vars

(***************************************************************************)
(* normalize_token on its own: the call of line 206, for hypotheses of one *)
(* word or of two words joined by a space or a hyphen.                     *)
(***************************************************************************)
\* Bound: the number of words of a hypothesis.
MaxHypWords == 2

\* "rot", "hell", "dunkel", "Weiß", "grün", "xyz1"
NormWords ==
    { rot, <<"h", "e", "l", "l">>, <<"d", "u", "n", "k", "e", "l">>,
      <<"W", "e", "i", "ß">>, <<"g", "r", "ü", "n">>, <<"x", "y", "z", "1">> }

NormSeps == { " ", "-" }

RECURSIVE NormInputsOf(_)
NormInputsOf(n) ==
    IF n = 0 THEN { << >>, <<" ">> }
    ELSE IF n = 1 THEN NormInputsOf(0) \cup NormWords
    ELSE NormInputsOf(n - 1)
            \cup { h \o <<sep>> \o w :
                     h \in { g \in NormInputsOf(n - 1) : g \notin NormInputsOf(0) },
                     sep \in NormSeps, w \in NormWords }

NormInputs == NormInputsOf(MaxHypWords)

InitNorm ==
    /\ RelayIdle
    /\ vocabSource = VocabFile
    /\ vocabLoaded = << load_vocab(VocabFile) >>
    /\ normIn \in NormInputs
    /\ normOut = NotCalled

\* token = normalize_token(hyp), line 206.
Normalize ==
    /\ normOut = NotCalled
    /\ normOut' = << normalize_token(normIn) >>
    /\ UNCHANGED <<vocabSource, vocabLoaded, normIn>>
    /\ UNCHANGED relay

NextNorm == Normalize

SpecNorm == InitNorm /\ [][NextNorm]_vars

(***************************************************************************)
(* Properties.  A key is what q_for derives from a code: code.strip().     *)
(***************************************************************************)
\* The codes the handlers accept: non-empty and at most 64 characters.
Accepted == { c \in Codes : c # << >> /\ Len(c) <= MAX_CODE_LEN }

\* The last n elements of s.
LastN(s, n) == IF Len(s) <= n THEN s ELSE SubSeq(s, Len(s) - n + 1, Len(s))

Range(s) == { s[i] : i \in 1..Len(s) }

SameBag(s, t) ==
    \A x \in Range(s) \cup Range(t) :
        Cardinality({ i \in 1..Len(s) : s[i] = x })
            = Cardinality({ i \in 1..Len(t) : t[i] = x })

WhitespaceOnly(c) == c # << >> /\ strip(c) = << >>

\* C1: after any sequence of completed push_token and drain_tokens calls,
\* the queue of every key holds at most MAX_QUEUE_LEN_PER_CODE tokens.
C1_CapacityBound ==
    Quiet =>
        \A k \in DOMAIN QUEUES : Len(heap[QUEUES[k]]) <= MAX_QUEUE_LEN_PER_CODE

\* C2: when more than N tokens have been pushed to a key since its last
\* drain, a drain of the key returns exactly the last N of them, oldest
\* first, and the drain after it returns nothing (every call before the
\* drain has returned).
C2_OverflowKeepsNewest ==
    \A c \in Accepted :
        (Quiet /\ Len(since[strip(c)]) > MAX_QUEUE_LEN_PER_CODE)
            => /\ drain_tokens(Registry, c).out
                    = LastN(since[strip(c)], MAX_QUEUE_LEN_PER_CODE)
               /\ drain_tokens(drain_tokens(Registry, c).R, c).out = << >>

\* C3: when t1..tn, n <= N, have been pushed to a key since its last drain
\* (which left its queue empty), a drain of the key returns exactly
\* t1..tn in that order (every call before the drain has returned).
C3_Fifo ==
    \A c \in Accepted :
        (Quiet /\ Len(since[strip(c)]) <= MAX_QUEUE_LEN_PER_CODE)
            => drain_tokens(Registry, c).out = since[strip(c)]

\* C4 as claimed: every token a drain_tokens(k2) returns was pushed with
\* the very string k2, so that strings differing only by leading or
\* trailing whitespace are isolated from each other too.
C4_IsolationByString ==
    \A i \in 1..Len(hist) :
        hist[i].op = "drain"
            => Range(hist[i].out) \subseteq pushedVia[hist[i].code]

\* C4 as amended: every token a drain_tokens(k2) returns was pushed with a
\* string whose stripped form is that of k2; a token pushed with k1 never
\* appears in a drain of k2 when k1.strip() differs from k2.strip().
C4_IsolationByKey ==
    \A i \in 1..Len(hist) :
        hist[i].op = "drain"
            => Range(hist[i].out) \subseteq
                   UNION { pushedVia[c] : c \in { d \in Codes : strip(d) = strip(hist[i].code) } }

\* A drain returned tokens while tokens pushed with another key are queued.
C4_Witness ==
    /\ hist # << >>
    /\ hist[Len(hist)].op = "drain"
    /\ hist[Len(hist)].out # << >>
    /\ \E c \in Codes :
        /\ strip(c) # strip(hist[Len(hist)].code)
        /\ pushedVia[c] # {}
        /\ queued(Registry, strip(c)) # << >>

\* The outcome of a push and a drain on one key: what the drain returned
\* and what the key's queue holds afterwards.
PushThenDrain(R, push, drain) ==
    LET d == drain_tokens(push_token(R, push.code, push.tok), drain.code)
    IN  << d.out, queued(d.R, strip(drain.code)) >>

DrainThenPush(R, push, drain) ==
    LET d == drain_tokens(R, drain.code)
    IN  << d.out, queued(push_token(d.R, push.code, push.tok), strip(drain.code)) >>

\* The calls of epoch.calls were one push_token and one drain_tokens on the
\* same key, overlapping, and both have returned.
OnePushOneDrain ==
    /\ Quiet
    /\ Len(epoch.calls) = 2
    /\ Len(hist) = 2
    /\ { epoch.calls[1].op, epoch.calls[2].op } = { "push", "drain" }
    /\ strip(epoch.calls[1].code) = strip(epoch.calls[2].code)

\* C5: when one push_token and one drain_tokens on the same key overlap,
\* the drain's result and the queue left behind are those of the push run
\* entirely before the drain or entirely after it.
C5_DrainAtomic ==
    OnePushOneDrain =>
        LET push  == IF epoch.calls[1].op = "push" THEN epoch.calls[1] ELSE epoch.calls[2]
            drain == IF epoch.calls[1].op = "drain" THEN epoch.calls[1] ELSE epoch.calls[2]
            out   == IF hist[1].op = "drain" THEN hist[1].out ELSE hist[2].out
        IN  << out, queued(Registry, strip(drain.code)) >>
                \in { PushThenDrain(epoch.R0, push, drain),
                      DrainThenPush(epoch.R0, push, drain) }

\* C6: when two pushers have each pushed one distinct token to a key since
\* its last drain, the capacity rule evicts nothing and a single drain
\* returns exactly those tokens, none twice and none missing (both pushes
\* have returned before the drain).
C6_ConcurrentPushSafety ==
    \A c \in Accepted :
        LET s == since[strip(c)]
        IN  (Quiet /\ Len(s) = 2 /\ s[1] # s[2])
                => SameBag(drain_tokens(Registry, c).out, s)

\* C7: in every state, between any two steps of concurrent push_token and
\* drain_tokens calls, no queue object holds more than N tokens.
C7_NoTransientOverCapacity ==
    \A i \in 1..Len(heap) : Len(heap[i]) <= MAX_QUEUE_LEN_PER_CODE

\* C8: a drain_tokens on a key no call has touched, running with no other
\* call beside it, returns [] and leaves the key registered with an empty
\* queue, and a drain of the same key right after it returns [] as well.
C8_EmptyDrain ==
    /\ \A i \in 1..Len(hist) :
        (hist[i].op = "drain" /\ hist[i].fresh /\ hist[i].alone)
            => /\ hist[i].out = << >>
               /\ hist[i].present
               /\ hist[i].left = << >>
    /\ ( /\ Len(hist) = 2
         /\ hist[1].op = "drain"
         /\ hist[1].fresh
         /\ hist[1].alone
         /\ hist[2].op = "drain"
         /\ hist[2].alone
         /\ strip(hist[2].code) = strip(hist[1].code) )
            => hist[2].out = << >>

\* Two drains in a row of a key nothing had touched.
C8_Witness ==
    /\ Len(hist) = 2
    /\ hist[1].op = "drain"
    /\ hist[1].fresh
    /\ hist[1].alone
    /\ hist[2].op = "drain"
    /\ hist[2].alone
    /\ strip(hist[2].code) = strip(hist[1].code)
    /\ strip(hist[1].code) \in DOMAIN QUEUES

\* C9: a recognize or pull request whose code is empty or longer than 64
\* characters is answered with the rejection, and QUEUES, QLEN and every
\* queue are as they were before it.
C9_RejectedNoEffect ==
    [][ ( /\ resp' # resp
          /\ (resp'.code = << >> \/ Len(resp'.code) > MAX_CODE_LEN) )
            => /\ resp'.status = 400
               /\ QUEUES' = QUEUES
               /\ QLEN' = QLEN
               /\ heap' = heap ]_vars

\* A request with an overlong code was rejected while tokens were queued.
C9_Witness ==
    /\ resp.status = 400
    /\ Len(resp.code) > MAX_CODE_LEN
    /\ \E k \in DOMAIN QUEUES : heap[QUEUES[k]] # << >>

\* C10: a request whose code is only whitespace is answered with the
\* rejection, and no registry entry exists for the empty key such a code
\* strips to.
C10_WhitespaceCodeRejected ==
    /\ WhitespaceOnly(resp.code) => resp.status = 400
    /\ << >> \notin DOMAIN QUEUES
    /\ << >> \notin DOMAIN QLEN

\* The upload gives no token: it is shorter than the threshold, does not
\* decode, makes the recognizer fail, or its hypothesis normalizes to None.
NoToken(audio) ==
    \/ audio.bytes < MIN_AUDIO_BYTES
    \/ ~audio.decodes
    \/ ~audio.recognizes
    \/ normalize_token(strip(audio.hyp)) = None

\* C11: a recognize request with an accepted code whose upload gives no
\* token is answered with success and a null token, and QUEUES, QLEN and
\* every queue are as they were before it.
C11_NoTokenNoEffect ==
    [][ \A c \in Coroutines, audio \in Audios :
            (RecognizeResume(c, audio) /\ frame[c].code \in Accepted /\ NoToken(audio))
                => /\ resp'.kind = "recognize"
                   /\ resp'.code = frame[c].code
                   /\ resp'.status = 200
                   /\ resp'.ok
                   /\ resp'.token = None
                   /\ QUEUES' = QUEUES
                   /\ QLEN' = QLEN
                   /\ heap' = heap ]_vars

\* An upload that failed to decode was answered while tokens were queued.
C11_Witness ==
    /\ resp.kind = "recognize"
    /\ resp.status = 200
    /\ resp.token = None
    /\ resp.note = "decode_failed"
    /\ resp.code \in Accepted
    /\ \E k \in DOMAIN QUEUES : heap[QUEUES[k]] # << >>

\* C12: every token held in any queue object, and every token a drain
\* has returned, is a member of VOCAB.
C12_OnlyVocabularyTokens ==
    /\ \A i \in 1..Len(heap) : Range(heap[i]) \subseteq VOCAB
    /\ \A p \in Procs : Range(frame[p].out) \subseteq VOCAB
    /\ \A i \in 1..Len(hist) : Range(hist[i].out) \subseteq VOCAB
    /\ Range(resp.tokens) \subseteq VOCAB

\* A pull returned a token that a recognize request had normalized from
\* the hypothesis "Weiß" or "ich sehe rot jetzt".
C12_Witness ==
    /\ resp.kind = "pull"
    /\ resp.tokens # << >>
    /\ \E c \in Codes : pushedVia[c] # {} /\ c # PreCode
    /\ \E i \in 1..Len(hist) : hist[i].op = "push"

\* C13: load_vocab never raises and never returns an empty set, whatever
\* the state of the file, and it returns DEFAULT_VOCAB when the file is
\* missing, cannot be read, or has no line with a token.
C13_LoadVocabNeverFails ==
    vocabLoaded # NotCalled
        => /\ ~vocabLoaded[1].raised
           /\ vocabLoaded[1].items # {}
           /\ ( \/ vocabSource.kind # "ok"
                \/ \A i \in 1..Len(vocabSource.lines) : strip(vocabSource.lines[i]) = << >> )
                  => vocabLoaded[1].items = DEFAULT_VOCAB

\* The string steps 1 to 5 of the normalizer leave: lowercased, filtered,
\* whitespace collapsed, phrase-level alias applied.
AfterPhraseAlias(s) ==
    alias_get(join_space(split([i \in 1..Len(lower(strip(s))) |->
                                    filter_char(lower(strip(s))[i])])))

\* The candidate words when the string is split on spaces and on hyphens.
SplitOnSpacesAndHyphens(s) ==
    split([i \in 1..Len(s) |-> IF s[i] = "-" THEN " " ELSE s[i]])

\* The first candidate from the left whose word-level alias is in VOCAB.
FirstInVocab(cands) ==
    LET hits == { i \in 1..Len(cands) : alias_get(cands[i]) \in VOCAB }
    IN  IF hits = {} THEN None
        ELSE Some(alias_get(cands[CHOOSE i \in hits : \A j \in hits : i <= j]))

\* C15 as claimed: normalize_token returns the first candidate, among the
\* words got by splitting on spaces and on hyphens after the phrase-level
\* alias, whose word-level alias is in VOCAB, or None when there is none.
C15_WordLevelMatching ==
    normOut # NotCalled
        => normOut[1] = IF AfterPhraseAlias(normIn) = << >> THEN None
                        ELSE FirstInVocab(SplitOnSpacesAndHyphens(AfterPhraseAlias(normIn)))

\* The candidate words when the hyphens are deleted, which joins the parts
\* of a hyphenated word, and the string is then split on spaces.
SplitOnSpacesHyphensDeleted(s) ==
    split(SelectSeq(s, LAMBDA ch : ch # "-"))

\* C15 as amended: normalize_token deletes the hyphens, splits on spaces,
\* and returns the first candidate from the left whose word-level alias
\* is in VOCAB, or None when there is none: a hyphenated input is matched
\* as the one word its parts join to, never on its parts.
C15_WordLevelJoined ==
    normOut # NotCalled
        => normOut[1] = IF AfterPhraseAlias(normIn) = << >> THEN None
                        ELSE FirstInVocab(SplitOnSpacesHyphensDeleted(AfterPhraseAlias(normIn)))

\* "dunkel-rot", no phrase alias, was normalized to the joined word.
C15_Witness ==
    /\ normIn = <<"d", "u", "n", "k", "e", "l", "-", "r", "o", "t">>
    /\ AfterPhraseAlias(normIn) = normIn
    /\ normOut = << Some(<<"d", "u", "n", "k", "e", "l", "r", "o", "t">>) >>

\* C14: a push_token discards a queued token only when the key's queue
\* holds N tokens just before the append, and then exactly the oldest one:
\* the queue it leaves is the one it found with the token appended, or,
\* from a full queue, the one it found without its head, with the token
\* appended.
C14_EvictionOnlyAtCapacity ==
    \A i \in 1..Len(hist) :
        hist[i].op = "push"
            => \/ hist[i].left = Append(hist[i].had, hist[i].tok)
               \/ /\ Len(hist[i].had) >= MAX_QUEUE_LEN_PER_CODE
                  /\ hist[i].left = Append(Tail(hist[i].had), hist[i].tok)

\* C16: every push_token call and every drain_tokens call that has begun
\* eventually returns, whatever the other callers do meanwhile.
C16_Termination ==
    \A p \in Procs : InCall(p) ~> (frame[p].pc = "return")

\* A drain is inside its loop, having taken a token, while a push on the
\* same key has evicted another and has yet to append its own.
C16_Witness ==
    \E w \in Workers, c \in Coroutines :
        /\ frame[w].pc \in {"drain_dec_read", "drain_dec_write"}
        /\ frame[c].pc \in {"push_dec_read", "push_dec_write"}
        /\ frame[c].key = frame[w].key

\* C17: whenever no call is in progress, for every string c that has been
\* passed to push_token or drain_tokens, the counter QLEN[c] equals the
\* number of tokens in the queue that q_for(c) returns.
C17_CounterAgreement ==
    Quiet =>
        \A c \in used :
            dict_get(QLEN, c, 0) = Len(queued(Registry, strip(c)))

\* C18: every queue object ever installed for a key is still the one
\* registered for it: none has been replaced.
C18_SingleQueuePerKey ==
    \A i \in 1..Len(heap) : \E k \in DOMAIN QUEUES : QUEUES[k] = i

Count(s, t) == Cardinality({ i \in 1..Len(s) : s[i] = t })

\* How often token t was returned by the drains of key k among the calls
\* begun since the callers were last all idle (at most two, all returned).
Delivered(k, t) ==
    LET n == Len(epoch.calls)
        of(i) == IF /\ i > Len(hist) - n
                    /\ hist[i].op = "drain"
                    /\ strip(hist[i].code) = k
                 THEN Count(hist[i].out, t) ELSE 0
    IN  (IF Len(hist) >= 1 THEN of(1) ELSE 0) + (IF Len(hist) >= 2 THEN of(2) ELSE 0)

\* How often t was queued for k when those calls began, or pushed by them.
Available(k, t) ==
    Count(queued(epoch.R0, k), t)
        + Cardinality({ i \in 1..Len(epoch.calls) :
                          /\ epoch.calls[i].op = "push"
                          /\ strip(epoch.calls[i].code) = k
                          /\ epoch.calls[i].tok = t })

\* C19: among overlapping drain_tokens and push_token calls on a key, the
\* drains together return each token no more often than it was queued or
\* pushed: no token goes to two drains or twice into one result.
C19_AtMostOnce ==
    (Quiet /\ Len(epoch.calls) \in 1..2 /\ Len(hist) >= Len(epoch.calls))
        => \A k \in Keys, t \in VOCAB : Delivered(k, t) <= Available(k, t)

\* Two overlapping drains of one key have each returned a token.
C19_Witness ==
    /\ Quiet
    /\ Len(epoch.calls) = 2
    /\ Len(hist) = 2
    /\ epoch.calls[1].op = "drain"
    /\ epoch.calls[2].op = "drain"
    /\ strip(epoch.calls[1].code) = strip(epoch.calls[2].code)
    /\ hist[1].out # << >>
    /\ hist[2].out # << >>

====
